---- MODULE Spec2Model ----
(***************************************************************************)
(* QA pipeline: orchestrateQA (RunBatch / processWorkItem), runTests (the  *)
(* Executor queue handler), jobStatus (GetStatus) over the blob store and  *)
(* the storage queues.                                                     *)
(*                                                                         *)
(* Blob names are paths; a path `a/b/c` is the tuple <<a, b, c>>.  A blob  *)
(* URL is modelled by the blob's name (blockBlobClient.url is a function   *)
(* of container and name).  uuidv4() is a counter: every call returns a    *)
(* number never returned before.                                           *)
(***************************************************************************)
EXTENDS Integers, Sequences, FiniteSets, TLC

VARIABLES
    scripts,      \* container 'test-scripts': blob name -> script text
    results,      \* container 'test-results': blob name -> blob
    execQueue,    \* 'test-execution-queue': envelopes sent, in order
    statusQueue,  \* JOB_STATUS_QUEUE_NAME: status events sent, in order
    uuid,         \* number of uuidv4() values handed out
    env,          \* process.env, as far as the handlers read it
    batch,        \* orchestrateQA handler: position and dailySummary
    pwi,          \* processWorkItem activation of the current work item
    ex,           \* runTests handler activations, one per consumer
    res,          \* jobStatus: context.res of the last request
    gen,          \* generateTests handler activations, one per invocation
    teams,        \* shared/teams: sendNotificationAndCreateBug activation
    fetch,        \* fetchWorkItems handler activation
    jobsQueue     \* QA_JOBS_QUEUE_NAME: work item messages sent, in order

vars == <<scripts, results, execQueue, statusQueue, uuid, env, batch, pwi, ex, res, gen, teams, fetch, jobsQueue>>

----------------------------------------------------------------------------
(* Bounds *)

MaxWorkItems == 2

\* entries of an output directory drawn for collectTestResults
MaxEntries == 3

\* work items one run of fetchWorkItems finds
MaxFetched == 4

(* Values *)

NoId == 0                      \* null testId / workItemId
NoError == "none"              \* no error message
ScenarioCounts == {0, 3}       \* lengths of the scenario array the model returns
ScriptText == "script"         \* a generated, non-empty test script

----------------------------------------------------------------------------
(* shared/storage.js, shared/queue.js *)

\* `${testId}/test.spec.js`
ScriptBlobName(testId) == <<testId, "test.spec.js">>

\* mutant: the upload replaces the container's content by the one blob
uploadBlob_Replace(container, blobName, data) ==
    [k \in {blobName} |-> data]

\* uploadBlob: overwrite-by-name upload into a container (a function)
uploadBlob(container, blobName, data) ==
    [k \in DOMAIN container \cup {blobName} |->
        IF k = blobName THEN data ELSE container[k]]

\* blockBlobClient.exists()
blobExists(container, blobName) == blobName \in DOMAIN container

\* enqueueMessage: the message is appended to the queue
enqueueMessage(queue, message) == Append(queue, message)

----------------------------------------------------------------------------
(* orchestrateQA/index.js: processWorkItem *)

\* result object built at the top of processWorkItem
NewResult(workItem) ==
    [workItemId |-> workItem.workItemId,
     exploratoryScenarios |-> 0,
     automatedTestScripts |-> <<>>,
     status |-> "unknown",
     error |-> NoError,
     evidenceURLs |-> <<>>,
     teamsNotifications |-> 0,
     bugCreated |-> FALSE]

\* execution envelope enqueued in step 4
ExecutionEnvelope(testId, workItem) ==
    [isNull |-> FALSE,
     testId |-> testId,
     workItemId |-> workItem.workItemId,
     hasBlobName |-> TRUE,
     scriptBlobName |-> ScriptBlobName(testId),
     hasBlobUrl |-> FALSE]

IdlePwi == [pc |-> "idle", testId |-> NoId, workItem |-> [workItemId |-> NoId, priority |-> 1],
            result |-> NewResult([workItemId |-> NoId]), scriptUrl |-> <<>>]

CurrentWorkItem == batch.workItems[batch.i]

\* mutant: the catch block records the message and leaves the status alone
ProcessWorkItemCatch_NoStatus(message) ==
    [pwi EXCEPT !.pc = "return", !.result.error = message]

\* catch block of processWorkItem: status 'error' with the message, result returned
ProcessWorkItemCatch(message) ==
    [pwi EXCEPT !.pc = "return",
                !.result.status = "error",
                !.result.error = message]

\* for-loop head in the handler: processWorkItem(workItem, context) is called;
\* testId = uuidv4() and the result object is built
ProcessWorkItemCall ==
    /\ batch.pc = "loop"
    /\ pwi.pc = "idle"
    /\ batch.i <= Len(batch.workItems)
    /\ uuid' = uuid + 1
    /\ pwi' = [pc |-> "scenarios", testId |-> uuid + 1, workItem |-> CurrentWorkItem,
               result |-> NewResult(CurrentWorkItem), scriptUrl |-> <<>>]
    /\ UNCHANGED <<scripts, results, execQueue, statusQueue, env, batch, ex, res, gen, teams, fetch, jobsQueue>>

\* Step 1: testGenerator.generateExploratoryScenarios
GenerateExploratoryScenarios ==
    /\ pwi.pc = "scenarios"
    /\ \/ \E n \in ScenarioCounts :
            pwi' = [pwi EXCEPT !.pc = "script", !.result.exploratoryScenarios = n]
       \/ pwi' = ProcessWorkItemCatch("Failed to generate exploratory scenarios")
    /\ UNCHANGED <<scripts, results, execQueue, statusQueue, uuid, env, batch, ex, res, gen, teams, fetch, jobsQueue>>

\* Step 2: testGenerator.generatePlaywrightTestScript
GeneratePlaywrightTestScript ==
    /\ pwi.pc = "script"
    /\ \/ pwi' = [pwi EXCEPT !.pc = "upload"]
       \/ pwi' = ProcessWorkItemCatch("Failed to generate Playwright test script")
    /\ UNCHANGED <<scripts, results, execQueue, statusQueue, uuid, env, batch, ex, res, gen, teams, fetch, jobsQueue>>

\* mutant: the upload error is swallowed and processWorkItem goes on to step 4
StoreTestScriptFailed_Swallowed ==
    /\ pwi' = [pwi EXCEPT !.pc = "enqueue"]
    /\ UNCHANGED scripts

\* what step 3 does when storageHelper.uploadBlob throws: the catch block runs
StoreTestScriptFailed ==
    /\ pwi' = ProcessWorkItemCatch("Failed to upload blob")
    /\ UNCHANGED scripts

\* Step 3: storageHelper.uploadBlob(scriptContainerName, `${testId}/test.spec.js`, ...)
StoreTestScript ==
    /\ pwi.pc = "upload"
    /\ \/ /\ scripts' = uploadBlob(scripts, ScriptBlobName(pwi.testId), ScriptText)
          /\ pwi' = [pwi EXCEPT !.pc = "enqueue",
                                !.scriptUrl = ScriptBlobName(pwi.testId),
                                !.result.automatedTestScripts =
                                    Append(@, ScriptBlobName(pwi.testId))]
       \/ StoreTestScriptFailed
    /\ UNCHANGED <<results, execQueue, statusQueue, uuid, env, batch, ex, res, gen, teams, fetch, jobsQueue>>

\* mutant: the message is sent and the error is raised afterwards
EnqueueTestExecutionFailed_AfterSend ==
    /\ pwi' = ProcessWorkItemCatch("Failed to enqueue message")
    /\ execQueue' = enqueueMessage(execQueue, ExecutionEnvelope(pwi.testId, pwi.workItem))

\* what step 4 does when queueHelper.enqueueMessage throws: the catch block runs
EnqueueTestExecutionFailed ==
    /\ pwi' = ProcessWorkItemCatch("Failed to enqueue message")
    /\ UNCHANGED execQueue

\* mutant: the send is retried after a timeout although the first send arrived
EnqueueTestExecution_Resend ==
    /\ pwi.pc = "enqueue"
    /\ \/ /\ execQueue' = enqueueMessage(execQueue, ExecutionEnvelope(pwi.testId, pwi.workItem))
          /\ pwi' = [pwi EXCEPT !.pc = "notify"]
       \/ /\ execQueue' = enqueueMessage(
                              enqueueMessage(execQueue, ExecutionEnvelope(pwi.testId, pwi.workItem)),
                              ExecutionEnvelope(pwi.testId, pwi.workItem))
          /\ pwi' = [pwi EXCEPT !.pc = "notify"]
       \/ EnqueueTestExecutionFailed
    /\ UNCHANGED <<scripts, results, statusQueue, uuid, env, batch, ex, res, gen, teams, fetch, jobsQueue>>

\* mutant: after the enqueue processWorkItem waits for the execution result
EnqueueTestExecution_AwaitsResult ==
    /\ pwi.pc = "enqueue"
    /\ \/ /\ execQueue' = enqueueMessage(execQueue, ExecutionEnvelope(pwi.testId, pwi.workItem))
          /\ pwi' = [pwi EXCEPT !.pc = "await"]
       \/ EnqueueTestExecutionFailed
    /\ UNCHANGED <<scripts, results, statusQueue, uuid, env, batch, ex, res, gen, teams, fetch, jobsQueue>>

\* Step 4: queueHelper.enqueueMessage(executionQueueName, {testId, scriptBlobName, ...})
EnqueueTestExecution ==
    /\ pwi.pc = "enqueue"
    /\ \/ /\ execQueue' = enqueueMessage(execQueue, ExecutionEnvelope(pwi.testId, pwi.workItem))
          /\ pwi' = [pwi EXCEPT !.pc = "notify"]
       \/ EnqueueTestExecutionFailed
    /\ UNCHANGED <<scripts, results, statusQueue, uuid, env, batch, ex, res, gen, teams, fetch, jobsQueue>>

\* mutant: a failed notification reaches the catch block of processWorkItem
NotifyTeams_Throws ==
    /\ pwi.pc = "notify"
    /\ IF env.teamsWebhookUrl
       THEN \/ pwi' = [pwi EXCEPT !.pc = "return", !.result.teamsNotifications = @ + 1]
            \/ pwi' = ProcessWorkItemCatch("Failed to send Teams notification")
       ELSE pwi' = [pwi EXCEPT !.pc = "return"]
    /\ UNCHANGED <<scripts, results, execQueue, statusQueue, uuid, env, batch, ex, res, gen, teams, fetch, jobsQueue>>

\* Step 6: teamsNotifier.notifyTeams if TEAMS_WEBHOOK_URL is set; a failure is logged
NotifyTeams ==
    /\ pwi.pc = "notify"
    /\ IF env.teamsWebhookUrl
       THEN \/ pwi' = [pwi EXCEPT !.pc = "return", !.result.teamsNotifications = @ + 1]
            \/ pwi' = [pwi EXCEPT !.pc = "return"]
       ELSE pwi' = [pwi EXCEPT !.pc = "return"]
    /\ UNCHANGED <<scripts, results, execQueue, statusQueue, uuid, env, batch, ex, res, gen, teams, fetch, jobsQueue>>

----------------------------------------------------------------------------
(* orchestrateQA/index.js: the handler (RunBatch) *)

NewDailySummary ==
    [workItemsProcessed |-> 0,
     testsPassed |-> 0,
     testsFailed |-> 0,
     exploratoryScenariosGenerated |-> 0,
     highPriorityFailures |-> <<>>,
     results |-> <<>>,
     error |-> NoError,
     summarySent |-> FALSE]

IdleBatch == [pc |-> "start", workItems |-> <<>>, i |-> 1, dailySummary |-> NewDailySummary]

\* the work items the tracker returns: n items, ids 101.., in fetch order
FetchedWorkItems(n) == [k \in 1..n |-> [workItemId |-> 100 + k, priority |-> 1]]

\* handler entry: configuration check, then step 1,
\* workItemFetcher.fetchWorkItemsReadyForTesting; no work items returns at once
FetchWorkItems ==
    /\ batch.pc = "start"
    /\ IF ~env.devOpsConfigured
       THEN batch' = [batch EXCEPT !.pc = "done",
                        !.dailySummary.error = "Azure DevOps configuration is required"]
       ELSE \/ \E n \in 0..MaxWorkItems :
                 batch' = [batch EXCEPT !.workItems = FetchedWorkItems(n),
                                        !.pc = IF n = 0 THEN "done" ELSE "loop"]
            \/ batch' = [batch EXCEPT !.pc = "done",
                                      !.dailySummary.error = "fetch failed"]
    /\ UNCHANGED <<scripts, results, execQueue, statusQueue, uuid, env, pwi, ex, res, gen, teams, fetch, jobsQueue>>

\* dailySummary after the loop body has taken processWorkItem's result r
\* (lines 262-292); createBugForFailure succeeds (bug = TRUE) or throws
LoopBody(d, r, workItem, bug) ==
    LET d1 == [d EXCEPT !.workItemsProcessed = @ + 1,
                        !.exploratoryScenariosGenerated = @ + r.exploratoryScenarios]
        fileBug == /\ r.status = "fail"
                   /\ env.createBugsForFailures
                   /\ Len(r.evidenceURLs) > 0
                   /\ bug
        r1 == [r EXCEPT !.bugCreated = IF fileBug THEN TRUE ELSE @]
        d2 == IF r.status = "unknown" THEN d1
              ELSE IF r.status = "pass" THEN [d1 EXCEPT !.testsPassed = @ + 1]
              ELSE IF r.status = "fail"
                   THEN [d1 EXCEPT !.testsFailed = @ + 1,
                                   !.highPriorityFailures =
                                       IF workItem.priority <= 2
                                       THEN Append(@, workItem.workItemId) ELSE @]
              ELSE d1
    IN [d2 EXCEPT !.results = Append(@, r1)]

\* processWorkItem returns its result; the loop body records it and moves on
ProcessWorkItemReturn ==
    /\ pwi.pc = "return"
    /\ batch.pc = "loop"
    /\ \E bug \in BOOLEAN :
         batch' = [batch EXCEPT
                     !.dailySummary = LoopBody(@, pwi.result, pwi.workItem, bug),
                     !.i = @ + 1,
                     !.pc = IF batch.i = Len(batch.workItems) THEN "summary" ELSE "loop"]
    /\ pwi' = IdlePwi
    /\ UNCHANGED <<scripts, results, execQueue, statusQueue, uuid, env, ex, res, gen, teams, fetch, jobsQueue>>

\* Step 3: daily summary to Teams when a webhook is set and something was processed;
\* a failure is logged; the handler returns dailySummary
SendDailySummary ==
    /\ batch.pc = "summary"
    /\ IF env.teamsWebhookUrl /\ batch.dailySummary.workItemsProcessed > 0
       THEN \/ batch' = [batch EXCEPT !.pc = "done", !.dailySummary.summarySent = TRUE]
            \/ batch' = [batch EXCEPT !.pc = "done"]
       ELSE batch' = [batch EXCEPT !.pc = "done"]
    /\ UNCHANGED <<scripts, results, execQueue, statusQueue, uuid, env, pwi, ex, res, gen, teams, fetch, jobsQueue>>

NextOrch ==
    \/ FetchWorkItems
    \/ ProcessWorkItemCall
    \/ GenerateExploratoryScenarios
    \/ GeneratePlaywrightTestScript
    \/ StoreTestScript
    \/ EnqueueTestExecution
    \/ NotifyTeams
    \/ ProcessWorkItemReturn
    \/ SendDailySummary

----------------------------------------------------------------------------
(* runTests/index.js: collectTestResults over the runner's output directory *)

\* A directory is the sequence of its entries in readdir order.  An entry is
\* a file [isDir |-> FALSE, name, content] or a directory
\* [isDir |-> TRUE, name, entries].

\* path.extname(file.name).toLowerCase() for the file names of the model
extname(name) ==
    CASE name \in {"a.png", "b.png", "login.png"} -> ".png"
      [] name \in {"run.log"} -> ".log"
      [] name \in {"report.json", "results.json", "screenshot.json", "catalog.json"} -> ".json"
      [] name \in {"index.html"} -> ".html"
      [] OTHER -> ".zip"

\* String.prototype.includes(word) for the file names (lower-cased) and the
\* error messages of the model
includes(name, word) ==
    CASE word = "screenshot" -> name \in {"screenshot.json"}
      [] word = "log" -> name \in {"run.log", "catalog.json", "login.png"}
      [] word = "does not exist" ->
            name \in {"The specified blob does not exist.", "Blob does not exist in container"}
      [] OTHER -> FALSE

\* mutant: the log test comes before the screenshot test
Classify_LogFirst(name) ==
    IF extname(name) \in {".log", ".txt"} \/ includes(name, "log")
    THEN "log"
    ELSE IF extname(name) \in {".png", ".jpg", ".jpeg"} \/ includes(name, "screenshot")
    THEN "screenshot"
    ELSE IF extname(name) \in {".json", ".html"}
    THEN "report"
    ELSE "none"

\* the branch of the if / else-if chain a file takes (lines 80, 90, 99)
Classify(name) ==
    IF extname(name) \in {".png", ".jpg", ".jpeg"} \/ includes(name, "screenshot")
    THEN "screenshot"
    ELSE IF extname(name) \in {".log", ".txt"} \/ includes(name, "log")
    THEN "log"
    ELSE IF extname(name) \in {".json", ".html"}
    THEN "report"
    ELSE "none"

NoSummary == [isNull |-> TRUE]

\* results object at the top of collectTestResults
EmptyResults ==
    [screenshots |-> <<>>, logs |-> <<>>, reports |-> <<>>,
     status |-> "unknown", summary |-> NoSummary]

\* status taken from a JSON report's stats (lines 113-114)
StatsStatus(stats) ==
    IF stats.failed > 0 THEN "failed"
    ELSE IF stats.passed > 0 THEN "passed"
    ELSE "unknown"

\* summary taken from a JSON report's stats (lines 115-121)
StatsSummary(stats) ==
    [isNull |-> FALSE, total |-> stats.total, passed |-> stats.passed,
     failed |-> stats.failed, skipped |-> stats.skipped, duration |-> stats.duration]

\* one report file pushed (line 103), and status / summary extracted when it
\* has stats; content.stats (line 112) throws on a JSON file whose value is
\* null, after the push
PushReport(acc, file) ==
    LET type == IF extname(file.name) = ".json" THEN "json" ELSE "html"
        pushed == [acc EXCEPT !.reports =
                      Append(@, [name |-> file.name, type |-> type, content |-> file.content])]
    IN IF type = "json" /\ file.content.isNull
       THEN [threw |-> TRUE, results |-> pushed]
       ELSE IF type = "json" /\ file.content.hasStats
       THEN [threw |-> FALSE,
             results |-> [pushed EXCEPT !.status = StatsStatus(file.content.stats),
                                        !.summary = StatsSummary(file.content.stats)]]
       ELSE [threw |-> FALSE, results |-> pushed]

RECURSIVE CollectFrom(_, _, _)
\* the for loop of collectTestResults from entry i on, results so far in acc;
\* JSON.parse or content.stats throwing leaves the loop through the catch
\* block (line 126)
CollectFrom(entries, i, acc) ==
    IF i > Len(entries) THEN acc
    ELSE LET file == entries[i] IN
         IF file.isDir
         THEN LET subResults == CollectFrom(file.entries, 1, EmptyResults) IN
              CollectFrom(entries, i + 1,
                  [acc EXCEPT !.screenshots = @ \o subResults.screenshots,
                              !.logs = @ \o subResults.logs,
                              !.reports = @ \o subResults.reports])
         ELSE CASE Classify(file.name) = "screenshot" ->
                     CollectFrom(entries, i + 1,
                         [acc EXCEPT !.screenshots =
                             Append(@, [name |-> file.name, content |-> file.content])])
                [] Classify(file.name) = "log" ->
                     CollectFrom(entries, i + 1,
                         [acc EXCEPT !.logs =
                             Append(@, [name |-> file.name, content |-> file.content])])
                [] Classify(file.name) = "report" ->
                     IF extname(file.name) = ".json" /\ ~file.content.parses
                     THEN acc
                     ELSE LET report == PushReport(acc, file) IN
                          IF report.threw THEN report.results
                          ELSE CollectFrom(entries, i + 1, report.results)
                [] OTHER -> CollectFrom(entries, i + 1, acc)

collectTestResults(resultsPath) == CollectFrom(resultsPath, 1, EmptyResults)

\* Determine final status (lines 338-341)
FinalStatus(testResults, exitCode) ==
    IF testResults.status = "unknown"
    THEN IF exitCode = 0 THEN "passed" ELSE "failed"
    ELSE testResults.status

----------------------------------------------------------------------------
(* runTests/index.js: uploadTestResults *)

\* JSON.stringify(report.content, null, 2): the parsed value, laid out anew
JSONstringify(content) == [content EXCEPT !.layout = "indent2"]

EvidenceBlobName(testId, folder, name) == <<testId, folder, name>>

SummaryBlobName(testId) == <<testId, "summary.json">>

\* the uploads of uploadTestResults before the summary, in program order:
\* screenshots, then logs, then reports
UploadPlan(testId, testResults) ==
    [k \in 1..Len(testResults.screenshots) |->
        [folder |-> "screenshots",
         name |-> testResults.screenshots[k].name,
         blobName |-> EvidenceBlobName(testId, "screenshots", testResults.screenshots[k].name),
         type |-> "png",
         blob |-> [contentType |-> "image/png", data |-> testResults.screenshots[k].content]]]
    \o
    [k \in 1..Len(testResults.logs) |->
        [folder |-> "logs",
         name |-> testResults.logs[k].name,
         blobName |-> EvidenceBlobName(testId, "logs", testResults.logs[k].name),
         type |-> "text",
         blob |-> [contentType |-> "text/plain", data |-> testResults.logs[k].content]]]
    \o
    [k \in 1..Len(testResults.reports) |->
        [folder |-> "reports",
         name |-> testResults.reports[k].name,
         blobName |-> EvidenceBlobName(testId, "reports", testResults.reports[k].name),
         type |-> testResults.reports[k].type,
         blob |-> IF testResults.reports[k].type = "json"
                  THEN [contentType |-> "application/json",
                        data |-> JSONstringify(testResults.reports[k].content)]
                  ELSE [contentType |-> "text/html",
                        data |-> testResults.reports[k].content]]]

\* uploadResults.<folder> mapped to the summary's entries ({name, url} and,
\* for reports, type), for the first n uploads of the plan
UploadedEntries(plan, n, folder) ==
    LET Pick(k) == IF folder = "reports"
                   THEN [name |-> plan[k].name, url |-> plan[k].blobName, type |-> plan[k].type]
                   ELSE [name |-> plan[k].name, url |-> plan[k].blobName]
        idx == SelectSeq([k \in 1..n |-> k], LAMBDA k : plan[k].folder = folder)
    IN [j \in 1..Len(idx) |-> Pick(idx[j])]

\* the summary document (lines 222-230); status is testResults.status
SummaryDocument(testId, testResults, plan) ==
    [testId |-> testId,
     status |-> testResults.status,
     summary |-> testResults.summary,
     screenshots |-> UploadedEntries(plan, Len(plan), "screenshots"),
     logs |-> UploadedEntries(plan, Len(plan), "logs"),
     reports |-> UploadedEntries(plan, Len(plan), "reports")]

----------------------------------------------------------------------------
(* runTests/index.js: the handler *)

Consumers == {"c1", "c2"}

IdleEx ==
    [pc |-> "idle", isNull |-> TRUE, testId |-> NoId, workItemId |-> NoId,
     hasBlobName |-> FALSE, hasBlobUrl |-> FALSE,
     scriptBlobName |-> <<>>, script |-> "", sandbox |-> "none", exitCode |-> 0,
     dir |-> <<>>, testResults |-> EmptyResults, finalStatus |-> "unknown",
     plan |-> <<>>, next |-> 1, failedAt |-> "none", error |-> NoError,
     response |-> [error |-> FALSE, status |-> "none"]]

\* a status event on the job-status queue
StatusEvent(testId, status) == [testId |-> testId, status |-> status]

\* updateJobStatus: skipped without a queue name; an enqueue failure is logged
\* and swallowed (ok = FALSE)
updateJobStatus(queue, event, ok) ==
    IF env.statusQueueName /\ ok THEN enqueueMessage(queue, event) ELSE queue

\* The catch block of the handler (lines 386-409).  Its first statement reads
\* statusQueueName, a const declared inside the try block and out of scope
\* here: evaluating it throws ReferenceError, so neither the 'error' status
\* event nor the error response is produced and the handler's promise rejects.
HandlerCatch(e, where, message) ==
    [e EXCEPT !.pc = "thrown", !.failedAt = where, !.error = message]

\* mutant: the handler mints its own id whatever the envelope says
ItemTestId_Fresh(item) == uuid + 1

\* testId = queueItem.testId || queueItem.id || uuidv4()
ItemTestId(item) ==
    IF item.testId # NoId THEN item.testId
    ELSE IF item.id # NoId THEN item.id
    ELSE uuid + 1

\* envelopes that reach the handler from outside the orchestrator
NullItem ==
    [isNull |-> TRUE, testId |-> NoId, id |-> NoId, workItemId |-> NoId,
     hasBlobName |-> FALSE, scriptBlobName |-> <<>>, hasBlobUrl |-> FALSE]

ExternalItems ==
    { NullItem,
      [NullItem EXCEPT !.isNull = FALSE],
      [NullItem EXCEPT !.isNull = FALSE, !.testId = 901, !.hasBlobUrl = TRUE],
      [NullItem EXCEPT !.isNull = FALSE, !.testId = 902, !.hasBlobName = TRUE,
                       !.scriptBlobName = ScriptBlobName(902)] }

QueuedItems == { [NullItem EXCEPT !.isNull = FALSE,
                                  !.testId = execQueue[i].testId,
                                  !.workItemId = execQueue[i].workItemId,
                                  !.hasBlobName = execQueue[i].hasBlobName,
                                  !.scriptBlobName = execQueue[i].scriptBlobName,
                                  !.hasBlobUrl = execQueue[i].hasBlobUrl] :
                 i \in 1..Len(execQueue) }

\* mutant: an envelope with only scriptBlobUrl is resolved to a stored script
ValidateScriptName_UrlResolved(e) ==
    IF ~e.hasBlobName /\ ~e.hasBlobUrl
    THEN HandlerCatch(e, "validate", "Either scriptBlobName or scriptBlobUrl is required")
    ELSE IF ~e.hasBlobName
    THEN [e EXCEPT !.pc = "download", !.scriptBlobName = ScriptBlobName(1)]
    ELSE [e EXCEPT !.pc = "download"]

\* the script name check (lines 292-309), up to the await of the download
ValidateScriptName(e) ==
    IF ~e.hasBlobName /\ ~e.hasBlobUrl
    THEN HandlerCatch(e, "validate", "Either scriptBlobName or scriptBlobUrl is required")
    ELSE IF ~e.hasBlobName
    THEN HandlerCatch(e, "validate",
             "scriptBlobName is required when scriptBlobUrl is provided")
    ELSE [e EXCEPT !.pc = "download"]

\* handler entry (lines 259-284): queue item check and testId; with a status
\* queue configured the handler awaits updateJobStatus for the 'started' event,
\* without one it goes on to the script name check
Receive(c) ==
    /\ ex[c].pc = "idle"
    /\ \E item \in QueuedItems \cup ExternalItems :
         IF item.isNull
         THEN /\ ex' = [ex EXCEPT ![c] = HandlerCatch(@, "validate", "Queue item is required")]
              /\ UNCHANGED uuid
         ELSE LET e == [ex[c] EXCEPT !.isNull = FALSE, !.testId = ItemTestId(item),
                                     !.workItemId = item.workItemId,
                                     !.hasBlobName = item.hasBlobName,
                                     !.hasBlobUrl = item.hasBlobUrl,
                                     !.scriptBlobName = item.scriptBlobName]
              IN /\ uuid' = IF item.testId = NoId /\ item.id = NoId THEN uuid + 1 ELSE uuid
                 /\ ex' = [ex EXCEPT ![c] = IF env.statusQueueName
                                            THEN [e EXCEPT !.pc = "started"]
                                            ELSE ValidateScriptName(e)]
    /\ UNCHANGED <<scripts, results, execQueue, statusQueue, env, batch, pwi, res, gen, teams,
                   fetch, jobsQueue>>

\* updateJobStatus for the 'started' event answers (lines 283-290): the event
\* is on the queue, or the enqueue failed and was swallowed; the script name
\* check follows
AwaitStartedStatus(c) ==
    /\ ex[c].pc = "started"
    /\ \E ok \in BOOLEAN :
         statusQueue' = updateJobStatus(statusQueue,
                            StatusEvent(ex[c].testId, "started"), ok)
    /\ ex' = [ex EXCEPT ![c] = ValidateScriptName(@)]
    /\ UNCHANGED <<scripts, results, execQueue, uuid, env, batch, pwi, res, gen, teams, fetch,
                   jobsQueue>>

\* storageHelper.downloadBlobAsString(scriptContainerName, scriptBlobName)
DownloadScript(c) ==
    /\ ex[c].pc = "download"
    /\ \/ /\ blobExists(scripts, ex[c].scriptBlobName)
          /\ ex' = [ex EXCEPT ![c].pc = "run", ![c].script = scripts[ex[c].scriptBlobName]]
       \/ /\ ~blobExists(scripts, ex[c].scriptBlobName)
          /\ ex' = [ex EXCEPT ![c] = HandlerCatch(@, "download", "Blob does not exist")]
       \/ ex' = [ex EXCEPT ![c] = HandlerCatch(@, "download", "Failed to download blob")]
    /\ UNCHANGED <<scripts, results, execQueue, statusQueue, uuid, env, batch, pwi, res, gen, teams, fetch, jobsQueue>>


\* file contents: an identity for the bytes and, for a .json file, whether
\* JSON.parse accepts it, whether the parsed value is null and whether it has
\* a truthy stats property
NoStats == [total |-> 0, passed |-> 0, failed |-> 0, skipped |-> 0, duration |-> 0]

Bytes(id) ==
    [id |-> id, layout |-> "raw", parses |-> FALSE, isNull |-> FALSE, hasStats |-> FALSE,
     stats |-> NoStats]

Json(id) == [Bytes(id) EXCEPT !.parses = TRUE]

\* a file whose text is the JSON literal null
JsonNull(id) == [Json(id) EXCEPT !.isNull = TRUE]

JsonStats(id, passed, failed) ==
    [Json(id) EXCEPT !.hasStats = TRUE,
                     !.stats = [NoStats EXCEPT !.total = passed + failed,
                                               !.passed = passed, !.failed = failed]]

File(name, content) == [isDir |-> FALSE, name |-> name, content |-> content]

Dir(name, entries) == [isDir |-> TRUE, name |-> name, entries |-> entries]

\* output directories the runner leaves behind
ResultDirs ==
    { <<>>,
      << File("report.json", JsonStats(1, 1, 0)) >>,
      << File("a.png", Bytes(2)), File("report.json", JsonStats(3, 0, 1)) >>,
      << File("report.json", JsonStats(4, 0, 0)) >>,
      << File("run.log", Bytes(5)) >>,
      << File("report.json", JsonNull(16)), File("run.log", Bytes(5)) >>,
      << Dir("chromium", << File("report.json", JsonStats(6, 0, 1)) >>) >>,
      << File("a.png", Bytes(2)), Dir("chromium", << File("a.png", Bytes(7)) >>) >> }

\* what is left of the output directory when the runner is killed
PartialDirs == { <<>>, << File("run.log", Bytes(5)) >> }

\* runTestsWithMount's result (lines 635-659): exec resolves (exit code 0), or
\* rejects and the catch block returns exitCode = error.code || 1: a failing
\* test run (1), a kill by the timeout (error.code is null: 1), a docker
\* command that cannot start the container (125)
RunOutcomes ==
    [sandbox : {"ok"}, exitCode : {0}, dir : ResultDirs]
    \cup [sandbox : {"testfail"}, exitCode : {1}, dir : ResultDirs]
    \cup [sandbox : {"timeout"}, exitCode : {1}, dir : PartialDirs]
    \cup [sandbox : {"launchfail"}, exitCode : {125}, dir : {<<>>}]

\* entries an output directory is drawn from: an image, an image with 'log'
\* in its name, a log, a JSON report with stats, a JSON report whose value is
\* null, a file that is not JSON under a .json name, JSON files with
\* stats whose names contain 'screenshot' and 'log', an HTML report, a file no
\* branch takes, and a sub-directory
DirEntries ==
    { File("a.png", Bytes(2)),
      File("login.png", Bytes(15)),
      File("run.log", Bytes(5)),
      File("report.json", JsonStats(1, 1, 0)),
      File("report.json", JsonNull(16)),
      File("results.json", Bytes(8)),
      File("screenshot.json", JsonStats(9, 0, 1)),
      File("catalog.json", JsonStats(10, 0, 1)),
      File("index.html", Bytes(11)),
      File("trace.zip", Bytes(12)),
      Dir("chromium", << File("b.png", Bytes(7)), File("results.json", Bytes(14)),
                         File("run.log", Bytes(13)) >>) }

\* directories of at most MaxEntries entries, no name twice, in any readdir order
CollectDirs ==
    UNION { { d \in [1..n -> DirEntries] :
                \A i, j \in 1..n : i # j => d[i].name # d[j].name } : n \in 0..MaxEntries }

\* const testResults = await collectTestResults(executionResult.resultsPath)
\* (line 335), on its own
CollectTestResultsCall ==
    /\ ex["c1"].pc = "collect"
    /\ ex' = [ex EXCEPT !["c1"].pc = "collected",
                        !["c1"].testResults = collectTestResults(ex["c1"].dir)]
    /\ UNCHANGED <<scripts, results, execQueue, statusQueue, uuid, env, batch, pwi, res, gen,
                   teams, fetch, jobsQueue>>

\* dockerHelper.runTestsWithMount, then collectTestResults and the final status
\* (lines 328-341); an empty script or a failing mkdtemp throws
RunTests(c) ==
    /\ ex[c].pc = "run"
    /\ \/ /\ ex[c].script = ""
          /\ ex' = [ex EXCEPT ![c] = HandlerCatch(@, "run", "Test script content is required")]
       \/ /\ ex[c].script # ""
          /\ \/ ex' = [ex EXCEPT ![c] =
                         HandlerCatch([@ EXCEPT !.sandbox = "launchfail"], "run", "mkdtemp failed")]
             \/ \E o \in RunOutcomes :
                  LET testResults == collectTestResults(o.dir)
                      plan == UploadPlan(ex[c].testId, testResults)
                  IN ex' = [ex EXCEPT ![c].pc = IF Len(plan) = 0 THEN "summary" ELSE "upload",
                                      ![c].sandbox = o.sandbox,
                                      ![c].exitCode = o.exitCode,
                                      ![c].dir = o.dir,
                                      ![c].testResults = testResults,
                                      ![c].finalStatus = FinalStatus(testResults, o.exitCode),
                                      ![c].plan = plan,
                                      ![c].next = 1]
    /\ UNCHANGED <<scripts, results, execQueue, statusQueue, uuid, env, batch, pwi, res, gen, teams, fetch, jobsQueue>>

\* mutant: a failed evidence upload is skipped and the loop goes on
UploadEvidenceFailed_Skipped(c) ==
    /\ ex' = [ex EXCEPT ![c].next = @ + 1,
                        ![c].pc = IF ex[c].next = Len(ex[c].plan) THEN "summary" ELSE "upload"]
    /\ UNCHANGED results

\* what an evidence upload that throws does: uploadTestResults rethrows
\* (line 250) and the handler's catch block runs; nothing more is uploaded
UploadEvidenceFailed(c) ==
    /\ ex' = [ex EXCEPT ![c] = HandlerCatch(@, "upload", "Failed to upload test results")]
    /\ UNCHANGED results

\* one storageHelper.uploadBlob of the three upload loops (lines 150-219)
UploadEvidence(c) ==
    /\ ex[c].pc = "upload"
    /\ \/ /\ results' = uploadBlob(results, ex[c].plan[ex[c].next].blobName,
                                   ex[c].plan[ex[c].next].blob)
          /\ ex' = [ex EXCEPT ![c].next = @ + 1,
                              ![c].pc = IF ex[c].next = Len(ex[c].plan) THEN "summary" ELSE "upload"]
       \/ UploadEvidenceFailed(c)
    /\ UNCHANGED <<scripts, execQueue, statusQueue, uuid, env, batch, pwi, res, gen, teams, fetch, jobsQueue>>

\* mutant: a failed summary upload is swallowed and the handler goes on
UploadSummaryFailed_Swallowed(c) ==
    /\ ex' = [ex EXCEPT ![c].pc = "complete"]
    /\ UNCHANGED results

\* what a summary upload that throws does: uploadTestResults rethrows
\* (line 250) and the handler's catch block runs
UploadSummaryFailed(c) ==
    /\ ex' = [ex EXCEPT ![c] = HandlerCatch(@, "summary", "Failed to upload test results")]
    /\ UNCHANGED results

\* the upload of `${testId}/summary.json` (lines 221-246)
UploadSummary(c) ==
    /\ ex[c].pc = "summary"
    /\ \/ /\ results' = uploadBlob(results, SummaryBlobName(ex[c].testId),
                            [contentType |-> "application/json",
                             data |-> SummaryDocument(ex[c].testId, ex[c].testResults, ex[c].plan)])
          /\ ex' = [ex EXCEPT ![c].pc = "complete"]
       \/ UploadSummaryFailed(c)
    /\ UNCHANGED <<scripts, execQueue, statusQueue, uuid, env, batch, pwi, res, gen, teams, fetch, jobsQueue>>

\* mutant: an enqueue failure of the completion event reaches the catch block
Complete_PublishThrows(c) ==
    /\ ex[c].pc = "complete"
    /\ \E ok \in BOOLEAN :
         /\ statusQueue' = updateJobStatus(statusQueue,
                                StatusEvent(ex[c].testId, ex[c].finalStatus), ok)
         /\ ex' = [ex EXCEPT ![c] =
                      IF env.statusQueueName /\ ~ok
                      THEN HandlerCatch(@, "publish", "Failed to enqueue message")
                      ELSE [@ EXCEPT !.pc = "returned",
                                     !.response = [error |-> FALSE, status |-> ex[c].finalStatus]]]
    /\ UNCHANGED <<scripts, results, execQueue, uuid, env, batch, pwi, res, gen, teams, fetch, jobsQueue>>

\* the completion status event and the response (lines 354-384)
Complete(c) ==
    /\ ex[c].pc = "complete"
    /\ \E ok \in BOOLEAN :
         statusQueue' = updateJobStatus(statusQueue,
                            StatusEvent(ex[c].testId, ex[c].finalStatus), ok)
    /\ ex' = [ex EXCEPT ![c].pc = "returned",
                        ![c].response = [error |-> FALSE, status |-> ex[c].finalStatus]]
    /\ UNCHANGED <<scripts, results, execQueue, uuid, env, batch, pwi, res, gen, teams, fetch, jobsQueue>>

NextExec ==
    \E c \in Consumers :
        \/ Receive(c)
        \/ AwaitStartedStatus(c)
        \/ DownloadScript(c)
        \/ RunTests(c)
        \/ UploadEvidence(c)
        \/ UploadSummary(c)
        \/ Complete(c)

----------------------------------------------------------------------------
(* jobStatus (GetStatus) *)

\* the file names of the model in the order listBlobsFlat returns blob names
NameOrder ==
    << "a.png", "b.png", "catalog.json", "index.html", "login.png", "report.json",
       "results.json", "run.log", "screenshot.json", "trace.zip" >>

\* what a failing storage call reports: the service's 404 text (the blob is
\* gone by the time of the call), or another error
StorageErrors == {"The specified blob does not exist.", "service unavailable"}

\* the catch block of getTestSummary (lines 53-57): null when the message
\* includes 'does not exist', the error rethrown otherwise
getTestSummaryCatch(message) ==
    IF includes(message, "does not exist")
    THEN [threw |-> FALSE, summary |-> NoSummary]
    ELSE [threw |-> TRUE, summary |-> NoSummary]

\* listBlobsByPrefix for the prefix `${testId}/${folder}/`: name (prefix
\* removed) and URL of each blob; a storage error yields the empty array
listBlobsByPrefix(testId, folder, fault) ==
    IF fault THEN <<>>
    ELSE LET found == SelectSeq(NameOrder,
                         LAMBDA n : blobExists(results, EvidenceBlobName(testId, folder, n)))
         IN [k \in 1..Len(found) |->
                [name |-> found[k], url |-> EvidenceBlobName(testId, folder, found[k])]]

\* evidence.reports of getTestEvidence: each listed report gets its type from
\* its name (lines 125-134)
ReportEntries(reports) ==
    [k \in 1..Len(reports) |->
        [name |-> reports[k].name, url |-> reports[k].url,
         type |-> IF extname(reports[k].name) = ".json" THEN "json" ELSE "html"]]

\* mutant: an empty list in the summary falls back to the listing as well
ListOr_EmptyFallsBack(summary, evidence, collection) ==
    IF collection \in DOMAIN summary /\ summary[collection] # <<>>
    THEN summary[collection] ELSE evidence[collection]

\* summary.<collection> || evidence.<collection>: an array, even an empty one,
\* is truthy; only an absent field falls back to the listing
ListOr(summary, evidence, collection) ==
    IF collection \in DOMAIN summary THEN summary[collection] ELSE evidence[collection]

\* mutant: without a summary the response carries no evidence
buildResponse_NoEvidence(summary, evidence, testId) ==
    IF summary # NoSummary
    THEN [testId |-> testId,
          status |-> summary.status,
          summary |-> summary.summary,
          evidence |-> [screenshots |-> summary.screenshots, logs |-> summary.logs,
                        reports |-> summary.reports]]
    ELSE [testId |-> testId,
          status |-> "not_found",
          summary |-> NoSummary,
          evidence |-> [screenshots |-> <<>>, logs |-> <<>>, reports |-> <<>>]]

\* mutant: the evidence of the response is always the listing
buildResponse_ListingOnly(summary, evidence, testId) ==
    IF summary # NoSummary
    THEN [testId |-> testId,
          status |-> summary.status,
          summary |-> summary.summary,
          evidence |-> evidence]
    ELSE [testId |-> testId,
          status |-> "not_found",
          summary |-> NoSummary,
          evidence |-> evidence]

\* buildResponse(summary, evidence, testId)
buildResponse(summary, evidence, testId) ==
    IF summary # NoSummary
    THEN [testId |-> IF "testId" \in DOMAIN summary THEN summary.testId ELSE testId,
          status |-> IF "status" \in DOMAIN summary /\ summary.status # ""
                     THEN summary.status ELSE "unknown",
          summary |-> IF "summary" \in DOMAIN summary THEN summary.summary ELSE NoSummary,
          evidence |-> [screenshots |-> ListOr(summary, evidence, "screenshots"),
                        logs |-> ListOr(summary, evidence, "logs"),
                        reports |-> ListOr(summary, evidence, "reports")]]
    ELSE [testId |-> testId,
          status |-> "not_found",
          summary |-> NoSummary,
          evidence |-> evidence]

\* HTTP status code of a built response (lines 227-232)
HttpStatus(response) ==
    IF response.status = "not_found" THEN 404
    ELSE IF response.status = "error" THEN 500
    ELSE 200

NoRes == [pc |-> "idle", status |-> 0]

\* test ids asked for: the two runs, an id nothing is stored for, and none
RequestIds == {1, 2, 999, NoId}

\* context.res once the handler has set it
Answered(r, status, body) == [r EXCEPT !.pc = "done", !.status = status, !.body = body]

\* the blobs stored under a testId
BlobsOf(testId) == { k \in DOMAIN results : k[1] = testId }

\* handler entry (lines 191-218): a request without testId is answered 400;
\* otherwise getTestSummary starts the download of `${testId}/summary.json`.
\* faults records the storage calls of the request that failed, atCall the
\* blobs stored under the testId when the request came in
JobStatusCall ==
    /\ res.pc \in {"idle", "done"}
    /\ \E testId \in RequestIds :
         LET r == [pc |-> "exists", status |-> 0, testId |-> testId, faults |-> {},
                   atCall |-> BlobsOf(testId), summary |-> NoSummary,
                   evidence |-> [screenshots |-> <<>>, logs |-> <<>>, reports |-> <<>>],
                   body |-> <<>>]
         IN res' = IF testId = NoId THEN Answered(r, 400, [error |-> TRUE]) ELSE r
    /\ UNCHANGED <<scripts, results, execQueue, statusQueue, uuid, env, batch, pwi, ex, gen, teams, fetch, jobsQueue>>

\* what the handler does with the outcome of getTestSummary's catch: null is
\* the summary and the listings follow; a rethrown error is answered 500
\* (lines 244-258)
SummaryReadFailed(message, faults) ==
    LET got == getTestSummaryCatch(message) IN
    IF got.threw
    THEN Answered([res EXCEPT !.faults = faults], 500, [error |-> TRUE])
    ELSE [res EXCEPT !.pc = "screenshots", !.summary = got.summary, !.faults = faults]

\* downloadBlob's blockBlobClient.exists() answers (storage.js, downloadBlob):
\* a missing blob throws 'Blob ... does not exist in container'
AwaitSummaryExists ==
    /\ res.pc = "exists"
    /\ \/ res' = IF blobExists(results, SummaryBlobName(res.testId))
                 THEN [res EXCEPT !.pc = "download"]
                 ELSE SummaryReadFailed("Blob does not exist in container", {})
       \/ \E message \in StorageErrors :
            res' = SummaryReadFailed(message,
                       IF includes(message, "does not exist") THEN {"summaryGone"}
                       ELSE {"summary"})
    /\ UNCHANGED <<scripts, results, execQueue, statusQueue, uuid, env, batch, pwi, ex, gen, teams, fetch, jobsQueue>>

\* blockBlobClient.download(0) answers and the document is parsed; the first
\* listing of getTestEvidence follows
AwaitSummaryDownload ==
    /\ res.pc = "download"
    /\ \/ res' = [res EXCEPT !.pc = "screenshots",
                             !.summary = results[SummaryBlobName(res.testId)].data]
       \/ \E message \in StorageErrors :
            res' = SummaryReadFailed(message,
                       IF includes(message, "does not exist") THEN {"summaryGone"}
                       ELSE {"summary"})
    /\ UNCHANGED <<scripts, results, execQueue, statusQueue, uuid, env, batch, pwi, ex, gen, teams, fetch, jobsQueue>>

\* one listing of getTestEvidence answers (lines 106, 115): listBlobsByPrefix
\* gives the blobs, or the empty array when the storage call fails
AwaitListing(folder, nextPc) ==
    /\ res.pc = folder
    /\ \/ res' = [res EXCEPT !.pc = nextPc,
                             !.evidence[folder] = listBlobsByPrefix(res.testId, folder, FALSE)]
       \/ res' = [res EXCEPT !.pc = nextPc, !.faults = @ \cup {folder},
                             !.evidence[folder] = listBlobsByPrefix(res.testId, folder, TRUE)]
    /\ UNCHANGED <<scripts, results, execQueue, statusQueue, uuid, env, batch, pwi, ex, gen, teams, fetch, jobsQueue>>

AwaitListScreenshots == AwaitListing("screenshots", "logs")

AwaitListLogs == AwaitListing("logs", "reports")

\* context.res for the summary and the evidence read (lines 223-242)
Respond(r) ==
    LET response == buildResponse(r.summary, r.evidence, r.testId)
    IN Answered(r, HttpStatus(response), response)

\* mutant: the request leaves a marker blob under the RunID it was asked for
AwaitListReports_Writes ==
    /\ res.pc = "reports"
    /\ \E fault \in BOOLEAN :
         res' = Respond([res EXCEPT
                    !.faults = IF fault THEN @ \cup {"reports"} ELSE @,
                    !.evidence.reports =
                        ReportEntries(listBlobsByPrefix(res.testId, "reports", fault))])
    /\ results' = uploadBlob(results, <<res.testId, "status.json">>,
                       [contentType |-> "application/json", data |-> res'.body])
    /\ UNCHANGED <<scripts, execQueue, statusQueue, uuid, env, batch, pwi, ex, gen, teams, fetch, jobsQueue>>

\* the listing of the reports answers (line 124); getTestEvidence returns and
\* the handler builds the response and sets context.res
AwaitListReports ==
    /\ res.pc = "reports"
    /\ \E fault \in BOOLEAN :
         res' = Respond([res EXCEPT
                    !.faults = IF fault THEN @ \cup {"reports"} ELSE @,
                    !.evidence.reports =
                        ReportEntries(listBlobsByPrefix(res.testId, "reports", fault))])
    /\ UNCHANGED <<scripts, results, execQueue, statusQueue, uuid, env, batch, pwi, ex, gen, teams, fetch, jobsQueue>>

\* the handler
JobStatus ==
    \/ JobStatusCall
    \/ AwaitSummaryExists
    \/ AwaitSummaryDownload
    \/ AwaitListScreenshots
    \/ AwaitListLogs
    \/ AwaitListReports

\* one consumer and the status endpoint
NextStatus ==
    \/ Receive("c1")
    \/ AwaitStartedStatus("c1")
    \/ DownloadScript("c1")
    \/ RunTests("c1")
    \/ UploadEvidence("c1")
    \/ UploadSummary("c1")
    \/ Complete("c1")
    \/ JobStatus

----------------------------------------------------------------------------
(* buildResponse on its own: summary documents of any producer *)

\* a record with the field absent, or present with one of the values
Opt(field, values) == { <<>> } \cup { field :> v : v \in values }

ShotEntry == [name |-> "a.png", url |-> EvidenceBlobName(1, "screenshots", "a.png")]
LogEntry == [name |-> "run.log", url |-> EvidenceBlobName(1, "logs", "run.log")]
ReportEntry == [name |-> "report.json", url |-> EvidenceBlobName(1, "reports", "report.json"),
                type |-> "json"]
ListedShot == [name |-> "b.png", url |-> EvidenceBlobName(1, "screenshots", "b.png")]

\* summary.json documents as JSON allows them: any field may be missing
SummaryDocs ==
    { ("testId" :> 1) @@ a @@ b @@ c @@ d @@ e :
        a \in Opt("status", {"passed", "error", ""}),
        b \in Opt("summary", {StatsSummary(NoStats)}),
        c \in Opt("screenshots", {<<>>, <<ShotEntry>>}),
        d \in Opt("logs", {<<>>, <<LogEntry>>}),
        e \in Opt("reports", {<<>>, <<ReportEntry>>}) }

\* evidence objects as getTestEvidence returns them
Evidences ==
    [screenshots : {<<>>, <<ListedShot>>, <<ShotEntry, ListedShot>>},
     logs : {<<>>, <<LogEntry>>},
     reports : {<<>>, <<ReportEntry>>}]

\* a request whose summary document and listing have been read
BuildRequests ==
    { [status |-> 0, args |-> [summary |-> summary, evidence |-> evidence]] :
        summary \in SummaryDocs \cup {NoSummary}, evidence \in Evidences }

\* buildResponse applied to the summary document and the listing (lines 223-242)
BuildResponse ==
    /\ res \in BuildRequests
    /\ LET response == buildResponse(res.args.summary, res.args.evidence, 1) IN
       res' = [status |-> HttpStatus(response), args |-> res.args, body |-> response]
    /\ UNCHANGED <<scripts, results, execQueue, statusQueue, uuid, env, batch, pwi, ex, gen, teams, fetch, jobsQueue>>

----------------------------------------------------------------------------
(* generateTests: the queue-triggered generation stage *)

GenInvocations == {"g1", "g2"}

\* a model reply holding a script inside a markdown code block
FencedScript == "fenced script"

\* combinedReply keeps what the combined call got ("none" before the call)
IdleGen ==
    [pc |-> "idle", workItemId |-> NoId, testId |-> NoId, bindingTestId |-> NoId,
     combinedReply |-> "none",
     combinedCalls |-> 0, scriptCalls |-> 0, scenarioCalls |-> 0,
     testScript |-> "", scenarios |-> 0,
     response |-> [error |-> FALSE, testId |-> NoId, message |-> NoError]]

\* messages of the test-generation queue: null, a work item with its id, a
\* message without workItemId and id; bindingTestId is
\* context.bindingData.testId, set when the message has a testId property
GenItems ==
    { [isNull |-> TRUE, workItemId |-> NoId, bindingTestId |-> NoId],
      [isNull |-> TRUE, workItemId |-> NoId, bindingTestId |-> 909],
      [isNull |-> FALSE, workItemId |-> 101, bindingTestId |-> NoId],
      [isNull |-> FALSE, workItemId |-> 101, bindingTestId |-> 909],
      [isNull |-> FALSE, workItemId |-> NoId, bindingTestId |-> NoId] }

\* replies to the combined prompt: the call fails, the text is no JSON (and
\* holds none in a code block), or it parses to an object with any of the
\* fields testScript, script, scenarios, exploratoryScenarios (arrays by
\* their length)
CombinedReplies ==
    { [kind |-> "apierror", obj |-> <<>>], [kind |-> "text", obj |-> <<>>] }
    \cup { [kind |-> "json", obj |-> a @@ b @@ c @@ d] :
             a \in Opt("testScript", {"", ScriptText, FencedScript}),
             b \in Opt("script", {ScriptText}),
             c \in Opt("scenarios", {0, 3}),
             d \in Opt("exploratoryScenarios", {3}) }

\* generateTestsWithAI on a parsed reply (lines 242-253): the restructuring
\* when both testScript and scenarios are falsy, then the returned pair
generateTestsWithAI(obj) ==
    LET hasScript == "testScript" \in DOMAIN obj /\ obj.testScript # ""
        hasScenarios == "scenarios" \in DOMAIN obj
    IN [testScript |->
            IF hasScript THEN obj.testScript
            ELSE IF ~hasScenarios /\ "script" \in DOMAIN obj THEN obj.script
            ELSE "",
        scenarios |->
            IF hasScenarios THEN obj.scenarios
            ELSE IF ~hasScript /\ "exploratoryScenarios" \in DOMAIN obj
                 THEN obj.exploratoryScenarios
            ELSE 0]

\* the code-block clean-up of the handler (lines 369-372)
StripCodeBlock(testScript) ==
    IF testScript = FencedScript THEN ScriptText ELSE testScript

\* the catch block of the handler (lines 414-425): the error response, with
\* testId: context.bindingData.testId || uuidv4()
GenCatch(a, message) ==
    [a EXCEPT !.pc = "failed",
              !.response = [error |-> TRUE,
                            testId |-> IF a.bindingTestId # NoId THEN a.bindingTestId
                                       ELSE uuid + 1,
                            message |-> message]]

\* the uuid counter after the catch block: uuidv4() is called only without a
\* bindingData.testId
GenCatchUuid(a) == IF a.bindingTestId # NoId THEN uuid ELSE uuid + 1

\* mutant: the testId is taken from the message's work item
GenReceive_IdFromWorkItem(g) ==
    /\ gen[g].pc = "idle"
    /\ \E item \in GenItems :
         IF item.isNull
         THEN /\ gen' = [gen EXCEPT ![g] =
                          GenCatch([@ EXCEPT !.bindingTestId = item.bindingTestId],
                                   "Queue item is required")]
              /\ uuid' = GenCatchUuid(item)
         ELSE IF item.workItemId # NoId
         THEN /\ gen' = [gen EXCEPT ![g].pc = "combined",
                                    ![g].bindingTestId = item.bindingTestId,
                                    ![g].workItemId = item.workItemId,
                                    ![g].testId = item.workItemId]
              /\ UNCHANGED uuid
         ELSE /\ gen' = [gen EXCEPT ![g].pc = "combined",
                                    ![g].bindingTestId = item.bindingTestId,
                                    ![g].workItemId = uuid + 1,
                                    ![g].testId = uuid + 1]
              /\ uuid' = uuid + 1
    /\ UNCHANGED <<scripts, results, execQueue, statusQueue, env, batch, pwi, ex, res, teams, fetch, jobsQueue>>

\* handler entry (lines 335-343): queue item check, workItemId, testId = uuidv4()
GenReceive(g) ==
    /\ gen[g].pc = "idle"
    /\ \E item \in GenItems :
         IF item.isNull
         THEN /\ gen' = [gen EXCEPT ![g] =
                          GenCatch([@ EXCEPT !.bindingTestId = item.bindingTestId],
                                   "Queue item is required")]
              /\ uuid' = GenCatchUuid(item)
         ELSE IF item.workItemId # NoId
         THEN /\ gen' = [gen EXCEPT ![g].pc = "combined",
                                    ![g].bindingTestId = item.bindingTestId,
                                    ![g].workItemId = item.workItemId,
                                    ![g].testId = uuid + 1]
              /\ uuid' = uuid + 1
         ELSE /\ gen' = [gen EXCEPT ![g].pc = "combined",
                                    ![g].bindingTestId = item.bindingTestId,
                                    ![g].workItemId = uuid + 1,
                                    ![g].testId = uuid + 2]
              /\ uuid' = uuid + 2
    /\ UNCHANGED <<scripts, results, execQueue, statusQueue, env, batch, pwi, ex, res, teams, fetch, jobsQueue>>

\* mutant: a failed combined call is tried again
GenerateCombined_Retry(g) ==
    /\ gen[g].pc = "combined"
    /\ \E reply \in CombinedReplies :
         gen' = [gen EXCEPT ![g] =
                   IF reply.kind = "json"
                   THEN [@ EXCEPT !.pc = "upload",
                                  !.combinedReply = reply.kind,
                                  !.combinedCalls = @ + 1,
                                  !.testScript = generateTestsWithAI(reply.obj).testScript,
                                  !.scenarios = generateTestsWithAI(reply.obj).scenarios]
                   ELSE [@ EXCEPT !.combinedReply = reply.kind, !.combinedCalls = @ + 1]]
    /\ UNCHANGED <<scripts, results, execQueue, statusQueue, uuid, env, batch, pwi, ex, res, teams, fetch, jobsQueue>>

\* the combined call (lines 358-360); when it throws, the handler's inner
\* catch block goes on to the separate calls
GenerateCombined(g) ==
    /\ gen[g].pc = "combined"
    /\ \E reply \in CombinedReplies :
         gen' = [gen EXCEPT ![g] =
                   IF reply.kind = "json"
                   THEN [@ EXCEPT !.pc = "upload",
                                  !.combinedReply = reply.kind,
                                  !.combinedCalls = @ + 1,
                                  !.testScript = generateTestsWithAI(reply.obj).testScript,
                                  !.scenarios = generateTestsWithAI(reply.obj).scenarios]
                   ELSE [@ EXCEPT !.pc = "separateScript", !.combinedReply = reply.kind,
                                  !.combinedCalls = @ + 1]]
    /\ UNCHANGED <<scripts, results, execQueue, statusQueue, uuid, env, batch, pwi, ex, res, teams, fetch, jobsQueue>>

\* generateTestsSeparately, the script call (lines 269-287): a failing call
\* reaches the handler's outer catch block
GenerateScriptSeparately(g) ==
    /\ gen[g].pc = "separateScript"
    /\ \/ /\ \E content \in {"", ScriptText, FencedScript} :
               gen' = [gen EXCEPT ![g].pc = "separateScenarios",
                                  ![g].scriptCalls = @ + 1,
                                  ![g].testScript = content]
          /\ UNCHANGED uuid
       \/ /\ gen' = [gen EXCEPT ![g] =
                       GenCatch([@ EXCEPT !.scriptCalls = @ + 1], "script call failed")]
          /\ uuid' = GenCatchUuid(gen[g])
    /\ UNCHANGED <<scripts, results, execQueue, statusQueue, env, batch, pwi, ex, res, teams, fetch, jobsQueue>>

\* generateTestsSeparately, the scenarios call (lines 289-323): a reply that
\* is no JSON and holds no array gives no scenarios; a failing call, or an
\* array in the text that does not parse, reaches the outer catch block
GenerateScenariosSeparately(g) ==
    /\ gen[g].pc = "separateScenarios"
    /\ \/ /\ \E n \in {0, 3} :
               gen' = [gen EXCEPT ![g].pc = "upload",
                                  ![g].scenarioCalls = @ + 1,
                                  ![g].scenarios = n]
          /\ UNCHANGED uuid
       \/ /\ gen' = [gen EXCEPT ![g] =
                       GenCatch([@ EXCEPT !.scenarioCalls = @ + 1, !.testScript = ""],
                                "scenarios call failed")]
          /\ uuid' = GenCatchUuid(gen[g])
    /\ UNCHANGED <<scripts, results, execQueue, statusQueue, env, batch, pwi, ex, res, teams, fetch, jobsQueue>>

\* clean-up, upload of `${testId}/test.spec.js` and the response (lines
\* 367-412); nothing is enqueued
GenUpload(g) ==
    /\ gen[g].pc = "upload"
    /\ \/ /\ scripts' = uploadBlob(scripts, ScriptBlobName(gen[g].testId),
                                   StripCodeBlock(gen[g].testScript))
          /\ gen' = [gen EXCEPT ![g].pc = "returned",
                                ![g].response = [error |-> FALSE, testId |-> gen[g].testId,
                                                 message |-> NoError]]
          /\ UNCHANGED uuid
       \/ /\ gen' = [gen EXCEPT ![g] = GenCatch(@, "Failed to upload blob")]
          /\ uuid' = GenCatchUuid(gen[g])
          /\ UNCHANGED scripts
    /\ UNCHANGED <<results, execQueue, statusQueue, env, batch, pwi, ex, res, teams, fetch, jobsQueue>>

NextGen ==
    \E g \in GenInvocations :
        \/ GenReceive(g)
        \/ GenerateCombined(g)
        \/ GenerateScriptSeparately(g)
        \/ GenerateScenariosSeparately(g)
        \/ GenUpload(g)

----------------------------------------------------------------------------
(* shared/teams: sendNotification, createBug, sendNotificationAndCreateBug *)

\* results.notification and results.bug before the calls (null)
NullResult == [isNull |-> TRUE]

\* what the HTTPS request does: a 2xx answer, another status, or req.on('error')
HttpOutcomes == {"2xx", "non2xx", "error"}

Threw(message) == [threw |-> TRUE, error |-> message]

Resolved(value) == [threw |-> FALSE, value |-> value]

WebhookUrls == {"", "not a url", "https://hook"}

\* message argument: null, without title and text, with a title, with a text
Notifications ==
    { [isNull |-> TRUE, title |-> "", text |-> ""],
      [isNull |-> FALSE, title |-> "", text |-> ""],
      [isNull |-> FALSE, title |-> "Test failed", text |-> ""],
      [isNull |-> FALSE, title |-> "", text |-> "details"] }

\* bugData argument: null (the default), without a title, with a title
BugDatas ==
    { [isNull |-> TRUE, title |-> ""],
      [isNull |-> FALSE, title |-> ""],
      [isNull |-> FALSE, title |-> "Test failed"] }

BugOptions == [organizationUrl : {"", "not a url", "https://dev.azure.com/org"},
               projectName : {"", "project"},
               personalAccessToken : {"", "pat"}]

\* sendNotification: argument checks, then the POST to the webhook
sendNotification(webhookUrl, message, http) ==
    IF webhookUrl = ""
    THEN Threw("Teams webhook URL is required")
    ELSE IF message.isNull \/ (message.title = "" /\ message.text = "")
    THEN Threw("Message must have at least a title or text")
    ELSE IF webhookUrl = "not a url"
    THEN Threw("Invalid webhook URL")
    ELSE CASE http = "2xx" -> Resolved([statusCode |-> 200])
           [] http = "non2xx" -> Threw("Teams webhook returned status")
           [] OTHER -> Threw("Failed to send Teams notification")

\* options.x || process.env.AZURE_DEVOPS_x
OrElse(option, fromEnv) == IF option # "" THEN option ELSE fromEnv

\* createBug: argument and configuration checks, then the POST to Azure DevOps;
\* parsed says whether the 2xx body is JSON
createBug(bugData, options, http, parsed) ==
    LET orgUrl == OrElse(options.organizationUrl,
                         IF env.devOpsConfigured THEN "https://dev.azure.com/org" ELSE "")
        projectName == OrElse(options.projectName,
                              IF env.devOpsConfigured THEN "project" ELSE "")
        pat == OrElse(options.personalAccessToken,
                      IF env.devOpsConfigured THEN "pat" ELSE "")
    IN IF bugData.isNull \/ bugData.title = ""
       THEN Threw("Bug title is required")
       ELSE IF orgUrl = "" \/ projectName = "" \/ pat = ""
       THEN Threw("Azure DevOps configuration is required")
       ELSE IF orgUrl = "not a url"
       THEN Threw("Invalid Azure DevOps URL")
       ELSE CASE http = "2xx" /\ parsed -> Resolved([id |-> 1])
              [] http = "2xx" /\ ~parsed -> Resolved([rawResponse |-> "not json"])
              [] http = "non2xx" -> Threw("Azure DevOps API returned status")
              [] OTHER -> Threw("Failed to create Azure DevOps bug")

\* posted, filed: messages the Teams channel got, bugs Azure DevOps created
IdleTeams ==
    [pc |-> "idle", webhookUrl |-> "", notification |-> [isNull |-> TRUE, title |-> "", text |-> ""],
     bugData |-> [isNull |-> TRUE, title |-> ""],
     options |-> [organizationUrl |-> "", projectName |-> "", personalAccessToken |-> ""],
     results |-> [notification |-> NullResult, bug |-> NullResult],
     error |-> NoError, posted |-> 0, filed |-> 0]

\* sendNotificationAndCreateBug(webhookUrl, notification, bugData, options): entry
SendNotificationAndCreateBugCall ==
    /\ teams.pc = "idle"
    /\ \E webhookUrl \in WebhookUrls, notification \in Notifications,
          bugData \in BugDatas, options \in BugOptions :
         teams' = [teams EXCEPT !.pc = "notify", !.webhookUrl = webhookUrl,
                                !.notification = notification,
                                !.bugData = bugData, !.options = options]
    /\ UNCHANGED <<scripts, results, execQueue, statusQueue, uuid, env, batch, pwi, ex, res,
                   gen, fetch, jobsQueue>>

\* mutant: the notification is awaited outside a try block
AwaitSendNotification_Uncaught ==
    /\ teams.pc = "notify"
    /\ \E http \in HttpOutcomes :
         LET r == sendNotification(teams.webhookUrl, teams.notification, http)
         IN teams' = IF r.threw
                     THEN [teams EXCEPT !.pc = "thrown", !.error = r.error]
                     ELSE [teams EXCEPT !.pc = IF teams.bugData.isNull THEN "returned" ELSE "bug",
                                        !.results.notification = r.value,
                                        !.posted = @ + 1]
    /\ UNCHANGED <<scripts, results, execQueue, statusQueue, uuid, env, batch, pwi, ex, res,
                   gen, fetch, jobsQueue>>

\* try { results.notification = await sendNotification(...) } catch, then the
\* test of bugData
AwaitSendNotification ==
    /\ teams.pc = "notify"
    /\ \E http \in HttpOutcomes :
         LET r == sendNotification(teams.webhookUrl, teams.notification, http)
         IN teams' = [teams EXCEPT !.pc = IF teams.bugData.isNull THEN "returned" ELSE "bug",
                                   !.results.notification =
                                        IF r.threw THEN [error |-> r.error] ELSE r.value,
                                   !.posted = IF r.threw THEN @ ELSE @ + 1]
    /\ UNCHANGED <<scripts, results, execQueue, statusQueue, uuid, env, batch, pwi, ex, res,
                   gen, fetch, jobsQueue>>

\* try { results.bug = await createBug(bugData, options) } catch, then return
AwaitCreateBug ==
    /\ teams.pc = "bug"
    /\ \E http \in HttpOutcomes, parsed \in BOOLEAN :
         LET r == createBug(teams.bugData, teams.options, http, parsed)
         IN teams' = [teams EXCEPT !.pc = "returned",
                                   !.results.bug =
                                        IF r.threw THEN [error |-> r.error] ELSE r.value,
                                   !.filed = IF r.threw THEN @ ELSE @ + 1]
    /\ UNCHANGED <<scripts, results, execQueue, statusQueue, uuid, env, batch, pwi, ex, res,
                   gen, fetch, jobsQueue>>

NextTeams ==
    \/ SendNotificationAndCreateBugCall
    \/ AwaitSendNotification
    \/ AwaitCreateBug

----------------------------------------------------------------------------
(* fetchWorkItems: the timer-triggered handler and enqueueWorkItems *)

\* item.id.toString() for the ids of the model
toString(id) ==
    CASE id = 101 -> "101" [] id = 102 -> "102" [] id = 103 -> "103"
      [] id = 104 -> "104" [] id = 105 -> "105" [] OTHER -> "106"

\* response.data.workItems.map(item => item.id): n ids, in the query's order
WorkItemIds(n) == [k \in 1..n |-> 100 + k]

\* getWorkItemDetails: one object per item of the response, in its order
WorkItemDetails(workItemIds) ==
    [k \in DOMAIN workItemIds |->
        [id |-> workItemIds[k], workItemId |-> toString(workItemIds[k])]]

\* the message enqueueWorkItems builds for a work item
QueueMessage(workItem) ==
    [workItemId |-> workItem.workItemId, id |-> workItem.workItemId]

\* what queueHelper.enqueueMessage can throw
EnqueueErrors == {"createIfNotExists failed", "sendMessage failed"}

IdleFetch ==
    [pc |-> "idle", workItemIds |-> <<>>, workItems |-> <<>>, i |-> 1,
     enqueueResults |-> <<>>, ret |-> NullResult]

\* the catch block of the handler: {success: false, error: error.message}
FetchCatch(message) ==
    [fetch EXCEPT !.pc = "returned", !.ret = [success |-> FALSE, error |-> message]]

\* the summary returned after enqueueWorkItems (lines 273-296)
FetchSummary(workItems, enqueueResults) ==
    [success |-> TRUE,
     workItemsFound |-> Len(workItems),
     workItemsEnqueued |-> Cardinality({k \in DOMAIN enqueueResults : enqueueResults[k].success}),
     workItemsFailed |-> Cardinality({k \in DOMAIN enqueueResults : ~enqueueResults[k].success}),
     enqueueResults |-> enqueueResults]

\* handler entry: configuration check, then the WIQL query is sent
FetchWorkItemsCall ==
    /\ fetch.pc = "idle"
    /\ fetch' = IF ~env.devOpsConfigured
                THEN FetchCatch("Azure DevOps configuration is required")
                ELSE [fetch EXCEPT !.pc = "query"]
    /\ UNCHANGED <<scripts, results, execQueue, statusQueue, uuid, env, batch, pwi, ex, res,
                   gen, teams, jobsQueue>>

\* queryWorkItemsByStatus answers: no ids returns the short summary at once;
\* a failure reaches the catch block
QueryWorkItemsByStatus ==
    /\ fetch.pc = "query"
    /\ \/ \E n \in 0..MaxFetched :
            fetch' = IF n = 0
                     THEN [fetch EXCEPT !.pc = "returned",
                                        !.ret = [success |-> TRUE, workItemsFound |-> 0,
                                                 workItemsEnqueued |-> 0]]
                     ELSE [fetch EXCEPT !.pc = "details", !.workItemIds = WorkItemIds(n)]
       \/ fetch' = FetchCatch("Failed to query work items")
    /\ UNCHANGED <<scripts, results, execQueue, statusQueue, uuid, env, batch, pwi, ex, res,
                   gen, teams, jobsQueue>>

\* getWorkItemDetails answers; enqueueWorkItems starts its loop
GetWorkItemDetails ==
    /\ fetch.pc = "details"
    /\ \/ fetch' = [fetch EXCEPT !.pc = "enqueue",
                                 !.workItems = WorkItemDetails(fetch.workItemIds),
                                 !.i = 1, !.enqueueResults = <<>>]
       \/ fetch' = FetchCatch("Failed to get work item details")
    /\ UNCHANGED <<scripts, results, execQueue, statusQueue, uuid, env, batch, pwi, ex, res,
                   gen, teams, jobsQueue>>

\* the loop moves to the next work item; after the last one enqueueWorkItems
\* returns and the handler returns the summary
AfterEnqueue(enqueueResults) ==
    IF fetch.i = Len(fetch.workItems)
    THEN [fetch EXCEPT !.pc = "returned", !.i = @ + 1, !.enqueueResults = enqueueResults,
                       !.ret = FetchSummary(fetch.workItems, enqueueResults)]
    ELSE [fetch EXCEPT !.i = @ + 1, !.enqueueResults = enqueueResults]

\* mutant: a failed enqueue leaves the loop, enqueueWorkItems returns what it has
EnqueueWorkItemFailed_LeavesLoop(message) ==
    LET enqueueResults ==
            Append(fetch.enqueueResults,
                   [workItemId |-> fetch.workItems[fetch.i].workItemId,
                    success |-> FALSE, error |-> message])
    IN /\ fetch' = [fetch EXCEPT !.pc = "returned", !.enqueueResults = enqueueResults,
                                 !.ret = FetchSummary(fetch.workItems, enqueueResults)]
       /\ UNCHANGED jobsQueue

\* the catch block inside the loop of enqueueWorkItems (lines 207-213)
EnqueueWorkItemFailed(message) ==
    /\ fetch' = AfterEnqueue(Append(fetch.enqueueResults,
                                [workItemId |-> fetch.workItems[fetch.i].workItemId,
                                 success |-> FALSE, error |-> message]))
    /\ UNCHANGED jobsQueue

\* one iteration of the loop of enqueueWorkItems (lines 182-215)
EnqueueWorkItem ==
    /\ fetch.pc = "enqueue"
    /\ \/ /\ jobsQueue' = enqueueMessage(jobsQueue, QueueMessage(fetch.workItems[fetch.i]))
          /\ fetch' = AfterEnqueue(Append(fetch.enqueueResults,
                                      [workItemId |-> fetch.workItems[fetch.i].workItemId,
                                       success |-> TRUE, messageId |-> Len(jobsQueue) + 1]))
       \/ \E message \in EnqueueErrors : EnqueueWorkItemFailed(message)
    /\ UNCHANGED <<scripts, results, execQueue, statusQueue, uuid, env, batch, pwi, ex, res,
                   gen, teams>>

NextFetch ==
    \/ FetchWorkItemsCall
    \/ QueryWorkItemsByStatus
    \/ GetWorkItemDetails
    \/ EnqueueWorkItem

----------------------------------------------------------------------------
(* Initial states *)

Envs == [teamsWebhookUrl : BOOLEAN, devOpsConfigured : BOOLEAN,
         createBugsForFailures : BOOLEAN, statusQueueName : BOOLEAN]

\* a deployment before its first batch: empty containers and queues
InitOrch ==
    /\ scripts = <<>>
    /\ results = <<>>
    /\ execQueue = <<>>
    /\ statusQueue = <<>>
    /\ uuid = 0
    /\ env \in Envs
    /\ batch = IdleBatch
    /\ pwi = IdlePwi
    /\ ex = [c \in Consumers |-> IdleEx]
    /\ res = NoRes
    /\ gen = [g \in GenInvocations |-> IdleGen]
    /\ teams = IdleTeams
    /\ fetch = IdleFetch
    /\ jobsQueue = <<>>

SpecOrch == InitOrch /\ [][NextOrch]_vars

\* the batch when every call it awaits returns or fails: the handler always
\* takes its next step
SpecOrchFair == InitOrch /\ [][NextOrch]_vars /\ WF_vars(NextOrch)

\* a deployment after a batch of two work items whose scripts were stored and
\* whose envelopes were enqueued; no handler is running
InitExec ==
    /\ scripts = [k \in {ScriptBlobName(1), ScriptBlobName(2)} |-> ScriptText]
    /\ results = <<>>
    /\ execQueue = << ExecutionEnvelope(1, FetchedWorkItems(2)[1]),
                      ExecutionEnvelope(2, FetchedWorkItems(2)[2]) >>
    /\ statusQueue = <<>>
    /\ uuid = 2
    /\ env \in {e \in Envs : e.devOpsConfigured /\ ~e.teamsWebhookUrl /\ ~e.createBugsForFailures}
    /\ batch = IdleBatch
    /\ pwi = IdlePwi
    /\ ex = [c \in Consumers |-> IdleEx]
    /\ res = NoRes
    /\ gen = [g \in GenInvocations |-> IdleGen]
    /\ teams = IdleTeams
    /\ fetch = IdleFetch
    /\ jobsQueue = <<>>

SpecExec == InitExec /\ [][NextExec]_vars

SpecStatus == InitExec /\ [][NextStatus]_vars

\* the status endpoint between reading the store and building the response
InitBuild ==
    /\ scripts = <<>>
    /\ results = <<>>
    /\ execQueue = <<>>
    /\ statusQueue = <<>>
    /\ uuid = 0
    /\ env = [teamsWebhookUrl |-> FALSE, devOpsConfigured |-> TRUE,
              createBugsForFailures |-> FALSE, statusQueueName |-> FALSE]
    /\ batch = IdleBatch
    /\ pwi = IdlePwi
    /\ ex = [c \in Consumers |-> IdleEx]
    /\ res \in BuildRequests
    /\ gen = [g \in GenInvocations |-> IdleGen]
    /\ teams = IdleTeams
    /\ fetch = IdleFetch
    /\ jobsQueue = <<>>

SpecBuild == InitBuild /\ [][BuildResponse]_vars

\* the generation stage: two invocations, which may get the same message
InitGen ==
    /\ scripts = <<>>
    /\ results = <<>>
    /\ execQueue = <<>>
    /\ statusQueue = <<>>
    /\ uuid = 0
    /\ env = [teamsWebhookUrl |-> FALSE, devOpsConfigured |-> TRUE,
              createBugsForFailures |-> FALSE, statusQueueName |-> FALSE]
    /\ batch = IdleBatch
    /\ pwi = IdlePwi
    /\ ex = [c \in Consumers |-> IdleEx]
    /\ res = NoRes
    /\ gen = [g \in GenInvocations |-> IdleGen]
    /\ teams = IdleTeams
    /\ fetch = IdleFetch
    /\ jobsQueue = <<>>

SpecGen == InitGen /\ [][NextGen]_vars

\* the whole pipeline with defect filing switched on: a batch, and one
\* Executor consumer taking the envelopes the batch enqueues
InitPipe ==
    /\ scripts = <<>>
    /\ results = <<>>
    /\ execQueue = <<>>
    /\ statusQueue = <<>>
    /\ uuid = 0
    /\ env \in { [teamsWebhookUrl |-> FALSE, devOpsConfigured |-> TRUE,
                  createBugsForFailures |-> TRUE, statusQueueName |-> q] : q \in BOOLEAN }
    /\ batch = IdleBatch
    /\ pwi = IdlePwi
    /\ ex = [c \in Consumers |-> IdleEx]
    /\ res = NoRes
    /\ gen = [g \in GenInvocations |-> IdleGen]
    /\ teams = IdleTeams
    /\ fetch = IdleFetch
    /\ jobsQueue = <<>>

NextPipe ==
    \/ NextOrch
    \/ Receive("c1")
    \/ AwaitStartedStatus("c1")
    \/ DownloadScript("c1")
    \/ RunTests("c1")
    \/ UploadEvidence("c1")
    \/ UploadSummary("c1")
    \/ Complete("c1")

SpecPipe == InitPipe /\ [][NextPipe]_vars

\* the notification helper called once, with any arguments and either
\* DevOps configuration in the environment
InitTeams ==
    /\ scripts = <<>>
    /\ results = <<>>
    /\ execQueue = <<>>
    /\ statusQueue = <<>>
    /\ uuid = 0
    /\ env \in {e \in Envs : ~e.teamsWebhookUrl /\ ~e.createBugsForFailures /\ ~e.statusQueueName}
    /\ batch = IdleBatch
    /\ pwi = IdlePwi
    /\ ex = [c \in Consumers |-> IdleEx]
    /\ res = NoRes
    /\ gen = [g \in GenInvocations |-> IdleGen]
    /\ teams = IdleTeams
    /\ fetch = IdleFetch
    /\ jobsQueue = <<>>

SpecTeams == InitTeams /\ [][NextTeams]_vars

\* collectTestResults about to be called on an output directory
InitCollect ==
    /\ scripts = <<>>
    /\ results = <<>>
    /\ execQueue = <<>>
    /\ statusQueue = <<>>
    /\ uuid = 0
    /\ env = [teamsWebhookUrl |-> FALSE, devOpsConfigured |-> TRUE,
              createBugsForFailures |-> FALSE, statusQueueName |-> FALSE]
    /\ batch = IdleBatch
    /\ pwi = IdlePwi
    /\ \E d \in CollectDirs :
         ex = [c \in Consumers |->
                 IF c = "c1" THEN [IdleEx EXCEPT !.pc = "collect", !.dir = d] ELSE IdleEx]
    /\ res = NoRes
    /\ gen = [g \in GenInvocations |-> IdleGen]
    /\ teams = IdleTeams
    /\ fetch = IdleFetch
    /\ jobsQueue = <<>>

SpecCollect == InitCollect /\ [][CollectTestResultsCall]_vars

\* the timer fires on a deployment with an empty jobs queue
InitFetch ==
    /\ scripts = <<>>
    /\ results = <<>>
    /\ execQueue = <<>>
    /\ statusQueue = <<>>
    /\ uuid = 0
    /\ env \in {e \in Envs : ~e.teamsWebhookUrl /\ ~e.createBugsForFailures /\ ~e.statusQueueName}
    /\ batch = IdleBatch
    /\ pwi = IdlePwi
    /\ ex = [c \in Consumers |-> IdleEx]
    /\ res = NoRes
    /\ gen = [g \in GenInvocations |-> IdleGen]
    /\ teams = IdleTeams
    /\ fetch = IdleFetch
    /\ jobsQueue = <<>>

SpecFetch == InitFetch /\ [][NextFetch]_vars

----------------------------------------------------------------------------
(* Properties *)

Ran(c) == ex[c].pc \in {"upload", "summary", "complete", "returned"}

Collections == {"screenshots", "logs", "reports"}

\* the summary documents in the results container
SummaryNames == { k \in DOMAIN results : Len(k) = 2 /\ k[2] = "summary.json" }

\* the evidence blobs stored under `${testId}/${folder}/`
EvidenceNames(testId, folder) ==
    { k \in DOMAIN results : Len(k) = 3 /\ k[1] = testId /\ k[2] = folder }

\* C1: write-before-enqueue. Every envelope on the execution queue names the
\* script blob `${testId}/test.spec.js` of its own testId, and that blob
\* exists in the script container.
C1_WriteBeforeEnqueue ==
    \A i \in 1..Len(execQueue) :
        /\ execQueue[i].hasBlobName
        /\ execQueue[i].scriptBlobName = ScriptBlobName(execQueue[i].testId)
        /\ blobExists(scripts, execQueue[i].scriptBlobName)

\* C1 witness: processWorkItem has just enqueued the envelope of its run
C1_Witness ==
    /\ pwi.pc = "notify"
    /\ Len(execQueue) >= 1
    /\ execQueue[Len(execQueue)].testId = pwi.testId
    /\ blobExists(scripts, ScriptBlobName(pwi.testId))

\* C2: no orphaned envelopes. The RunID is fresh (no script blob under it
\* before the upload step); when processWorkItem returns, either the script is
\* stored under the RunID and the result is not an error, or the result has
\* status 'error' with a message and no envelope of that RunID is on the
\* execution queue.
C2_NoOrphanedEnvelopes ==
    /\ pwi.pc \in {"scenarios", "script", "upload"} =>
          ~blobExists(scripts, ScriptBlobName(pwi.testId))
    /\ pwi.pc = "return" =>
          \/ /\ pwi.result.status # "error"
             /\ pwi.result.automatedTestScripts = <<ScriptBlobName(pwi.testId)>>
             /\ blobExists(scripts, ScriptBlobName(pwi.testId))
          \/ /\ pwi.result.status = "error"
             /\ pwi.result.error # NoError
             /\ \A i \in 1..Len(execQueue) : execQueue[i].testId # pwi.testId

\* C2 witness: the enqueue failed after the script was stored; the result is an
\* error and the queue holds no envelope of the run
C2_Witness ==
    /\ pwi.pc = "return"
    /\ pwi.result.status = "error"
    /\ pwi.result.error = "Failed to enqueue message"
    /\ blobExists(scripts, ScriptBlobName(pwi.testId))

\* C3: summary.json is written last. Whenever a summary document is in the
\* results container, every screenshot, log and report it lists is a blob of
\* the container.
C3_SummaryWrittenLast ==
    \A k \in SummaryNames :
        \A coll \in Collections :
            \A j \in 1..Len(results[k].data[coll]) :
                blobExists(results, results[k].data[coll][j].url)

\* C3 witness: a summary that lists evidence is stored and has been read by
\* the status endpoint
C3_Witness ==
    /\ \E k \in SummaryNames : Len(results[k].data.screenshots) > 0
    /\ res.status = 200

\* C4 (as claimed): with a structured summary harvested, the Executor's status
\* is 'failed' if failed > 0, else 'passed' if passed > 0, else 'unknown';
\* the exit code decides only when no summary was harvested.
C4_StatusPrecedence ==
    \A c \in Consumers :
        Ran(c) =>
            ex[c].finalStatus =
                IF ex[c].testResults.summary # NoSummary
                THEN StatsStatus(ex[c].testResults.summary)
                ELSE IF ex[c].exitCode = 0 THEN "passed" ELSE "failed"

\* C5 (as claimed): after an execution with exit code 0 and no reported
\* failure, the stored summary.json has status 'passed'.
C5_PassedSummary ==
    \A c \in Consumers :
        ( /\ ex[c].pc \in {"complete", "returned"}
          /\ ex[c].exitCode = 0
          /\ ex[c].testResults.status # "failed" )
        => results[SummaryBlobName(ex[c].testId)].data.status = "passed"

\* C6 (as claimed): a run whose sandbox failed to launch or was killed by the
\* timeout ends with status 'error'.
C6_SandboxFailureIsError ==
    \A c \in Consumers :
        ( /\ ex[c].sandbox \in {"launchfail", "timeout"}
          /\ ex[c].pc = "returned" )
        => ex[c].response.status = "error"

\* C7 (as claimed): when an evidence upload fails after some evidence was
\* uploaded, a summary.json is still written for the run.
C7_SummaryAfterUploadFailure ==
    \A c \in Consumers :
        ( /\ ex[c].pc = "thrown"
          /\ ex[c].failedAt = "upload"
          /\ ex[c].next > 1 )
        => blobExists(results, SummaryBlobName(ex[c].testId))

\* C8 (as claimed): the handler never throws; every activation that ends has
\* returned a response object.
C8_HandlerNeverThrows ==
    \A c \in Consumers : ex[c].pc # "thrown"

\* C9: a request none of whose storage calls failed and that found no
\* summary.json for the RunID is answered 404 'not_found', and each evidence
\* blob that was stored under the RunID when the request came in is listed,
\* under its name and location, in the collection of its folder.
C9_PartialEvidenceListed ==
    ( /\ res.pc = "done"
      /\ res.testId # NoId
      /\ res.faults = {}
      /\ res.summary = NoSummary )
    => /\ res.status = 404
       /\ res.body.status = "not_found"
       /\ \A folder \in Collections :
            \A k \in res.atCall :
                k[2] = folder =>
                    \E j \in 1..Len(res.body.evidence[folder]) :
                        /\ res.body.evidence[folder][j].name = k[3]
                        /\ res.body.evidence[folder][j].url = k

\* C9 witness: an upload failed after a screenshot was stored, no summary was
\* written, and a request that came in afterwards was answered 404 listing
\* the screenshot
C9_Witness ==
    /\ ex["c1"].pc = "thrown" /\ ex["c1"].failedAt = "upload" /\ ex["c1"].next > 1
    /\ ~blobExists(results, SummaryBlobName(ex["c1"].testId))
    /\ res.pc = "done"
    /\ res.status = 404
    /\ res.testId = ex["c1"].testId
    /\ res.faults = {}
    /\ res.atCall # {}
    /\ Len(res.body.evidence.screenshots) = 1

\* C10: with a summary document, the response takes status and summary from
\* it, and each evidence collection from it when it has that list (even an
\* empty one); the listing is used exactly for the collections it lacks.
C10_SummaryTakesPrecedence ==
    ( res.status # 0 /\ res.args.summary # NoSummary ) =>
        LET summary == res.args.summary
            evidence == res.args.evidence
        IN /\ ("status" \in DOMAIN summary /\ summary.status # "") =>
                  res.body.status = summary.status
           /\ "summary" \in DOMAIN summary => res.body.summary = summary.summary
           /\ \A coll \in Collections :
                res.body.evidence[coll] =
                    IF coll \in DOMAIN summary THEN summary[coll] ELSE evidence[coll]

\* C10 witness: the summary has an empty screenshot list and no log list, the
\* listing has screenshots and logs: the response has no screenshot and the
\* listed logs
C10_Witness ==
    /\ res.status # 0
    /\ res.args.summary # NoSummary
    /\ "screenshots" \in DOMAIN res.args.summary
    /\ res.args.summary.screenshots = <<>>
    /\ res.args.evidence.screenshots # <<>>
    /\ "logs" \notin DOMAIN res.args.summary
    /\ res.args.evidence.logs # <<>>
    /\ res.body.evidence.screenshots = <<>>
    /\ res.body.evidence.logs = res.args.evidence.logs

\* C11 (as claimed): HTTP mapping of the status endpoint. With a summary
\* document the answer is 200 and carries the document's status, whatever it
\* is; without one it is 404 'not_found', with empty evidence arrays when the
\* listing is empty.
C11_HttpMapping ==
    res.status # 0 =>
        IF res.args.summary # NoSummary
        THEN /\ res.status = 200
             /\ ("status" \in DOMAIN res.args.summary /\ res.args.summary.status # "")
                    => res.body.status = res.args.summary.status
        ELSE /\ res.status = 404
             /\ res.body.status = "not_found"
             /\ \A coll \in Collections :
                    res.args.evidence[coll] = <<>> => res.body.evidence[coll] = <<>>

\* C12 (as claimed): a storage call of a GetStatus request that fails, the
\* summary download or the listing of any of the three prefixes, makes the
\* answer a 500.
C12_StorageFailureSurfaced ==
    ( res.pc = "done" /\ res.faults # {} ) => res.status = 500

\* C13 (as claimed): round trip. After the Executor has uploaded the harvested
\* files and written the summary, a request for the run that read the summary
\* without a storage failure lists, per collection, one entry per harvested
\* file in harvest order; the entry's location is a stored blob holding that
\* file's content, and no two entries of a collection share a location.
C13_RoundTrip ==
    \A c \in Consumers :
        ( /\ ex[c].pc \in {"complete", "returned"}
          /\ res.pc = "done"
          /\ res.testId = ex[c].testId
          /\ res.faults = {}
          /\ res.summary # NoSummary )
        => /\ res.status = 200
           /\ \A coll \in Collections :
                LET listed == res.body.evidence[coll]
                    harvested == ex[c].testResults[coll]
                IN /\ Len(listed) = Len(harvested)
                   /\ \A j \in 1..Len(listed) :
                        /\ listed[j].name = harvested[j].name
                        /\ blobExists(results, listed[j].url)
                        /\ results[listed[j].url].data.id = harvested[j].content.id
                   /\ \A i, j \in 1..Len(listed) :
                        i # j => listed[i].url # listed[j].url

\* the consumer whose handler takes the step, when the step is a handler step
Acting(c) == ex'[c] # ex[c]

\* C14: redelivery tolerance. With two consumers on the same envelopes, a
\* step that adds or changes a blob of the results container is a step of a
\* handler working on that blob's RunID, the blob's name is one of the
\* deterministic names of that handler's run, and no blob is removed; and in
\* every state the one summary.json of a RunID lists only stored evidence.
C14_RedeliveryTolerance ==
    /\ [][ /\ DOMAIN results \subseteq DOMAIN results'
           /\ \A k \in DOMAIN results' :
                (k \notin DOMAIN results \/ results'[k] # results[k]) =>
                    \E c \in Consumers :
                        /\ Acting(c)
                        /\ k[1] = ex[c].testId
                        /\ \/ k = SummaryBlobName(ex[c].testId)
                           \/ \E j \in 1..Len(ex[c].plan) : k = ex[c].plan[j].blobName ]_vars
    /\ [](\A k \in SummaryNames :
            /\ k = SummaryBlobName(k[1])
            /\ \A coll \in Collections :
                 \A j \in 1..Len(results[k].data[coll]) :
                     /\ results[k].data[coll][j].url[1] = k[1]
                     /\ blobExists(results, results[k].data[coll][j].url))

\* C14 witness: both consumers have processed the envelope of run 1 to the
\* end, with different outcomes; the summary of run 1 is stored
C14_Witness ==
    /\ ex["c1"].pc = "returned" /\ ex["c2"].pc = "returned"
    /\ ex["c1"].testId = 1 /\ ex["c2"].testId = 1
    /\ ex["c1"].testResults # ex["c2"].testResults
    /\ blobExists(results, SummaryBlobName(1))

\* what a request gets from a stored summary document, whatever the listings
\* gave
FromSummary(testId) ==
    LET doc == results[SummaryBlobName(testId)].data
    IN [testId |-> doc.testId, status |-> doc.status, summary |-> doc.summary,
        evidence |-> [screenshots |-> doc.screenshots, logs |-> doc.logs,
                      reports |-> doc.reports]]

\* C15: GetStatus is idempotent on a completed run. Every request that came
\* in when the run's summary.json was stored and whose summary download
\* succeeded is answered 200 with the status, the summary and the evidence
\* lists of the stored document, whether or not a listing call failed: any
\* two such requests get the same answer.
C15_GetStatusIdempotent ==
    ( /\ res.pc = "done"
      /\ res.testId # NoId
      /\ SummaryBlobName(res.testId) \in res.atCall
      /\ res.faults \cap {"summary", "summaryGone"} = {} )
    => /\ res.status = 200
       /\ res.body = FromSummary(res.testId)

\* C15 witness: the run has returned, its summary lists a screenshot, and the
\* last request, whose listing of the screenshots failed, was answered with
\* the lists of the summary
C15_Witness ==
    /\ ex["c1"].pc = "returned"
    /\ res.pc = "done"
    /\ res.status = 200
    /\ res.testId = ex["c1"].testId
    /\ SummaryBlobName(res.testId) \in res.atCall
    /\ res.faults = {"screenshots"}
    /\ Len(res.body.evidence.screenshots) > 0

\* C16: GetStatus is a pure read. Every step of the status endpoint, from
\* the arrival of a request to its answer, leaves both containers and the
\* three queues as they were, at any point of an Executor run.
C16_GetStatusPureRead ==
    [][ res' # res =>
          UNCHANGED <<scripts, results, execQueue, statusQueue, jobsQueue>> ]_vars

\* C16 witness: in the middle of a run's uploads (evidence stored, summary not
\* yet) the endpoint has answered a request for that run
C16_Witness ==
    /\ ex["c1"].pc = "summary"
    /\ ex["c1"].next > 1
    /\ res.pc = "done"
    /\ res.status = 404
    /\ res.testId = ex["c1"].testId
    /\ res.faults = {}
    /\ \E coll \in Collections : Len(res.body.evidence[coll]) > 0

\* C17: RunID namespacing. Every script blob is `${RunID}/test.spec.js`; a
\* handler that has downloaded a script works under the RunID that prefixes
\* the script's name, and every blob it uploads is named under that RunID;
\* every blob of the results container lies under the RunID of an envelope
\* whose script is stored under the same RunID.
C17_RunIdNamespacing ==
    /\ \A k \in DOMAIN scripts : k = ScriptBlobName(k[1])
    /\ \A c \in Consumers :
         ex[c].script # "" =>
            /\ ex[c].scriptBlobName = ScriptBlobName(ex[c].testId)
            /\ \A j \in 1..Len(ex[c].plan) : ex[c].plan[j].blobName[1] = ex[c].testId
    /\ \A k \in DOMAIN results :
         \E i \in 1..Len(execQueue) :
            /\ k[1] = execQueue[i].testId
            /\ execQueue[i].scriptBlobName[1] = k[1]
            /\ blobExists(scripts, execQueue[i].scriptBlobName)

\* C17 witness: the handler of run 2 has stored evidence and the summary
C17_Witness ==
    \E c \in Consumers :
        /\ ex[c].pc = "returned"
        /\ ex[c].testId = 2
        /\ ex[c].scriptBlobName = ScriptBlobName(2)
        /\ Len(ex[c].plan) > 0
        /\ \A j \in 1..Len(ex[c].plan) : blobExists(results, ex[c].plan[j].blobName)
        /\ blobExists(results, SummaryBlobName(2))

\* C18: a completion event follows the summary. Every status event 'passed'
\* or 'failed' on the job-status queue belongs to a RunID whose summary.json
\* is in the results container.
C18_CompletionEventAfterSummary ==
    \A i \in 1..Len(statusQueue) :
        statusQueue[i].status \in {"passed", "failed"} =>
            blobExists(results, SummaryBlobName(statusQueue[i].testId))

\* C18 witness: a handler has published the 'failed' event of its run
C18_Witness ==
    \E c \in Consumers :
        /\ ex[c].pc = "returned"
        /\ \E i \in 1..Len(statusQueue) :
             statusQueue[i] = StatusEvent(ex[c].testId, "failed")

\* C19: status events are best effort. The step of a handler that publishes
\* an event has one outcome for the handler and the store, whether or not
\* the event reaches the queue: after the summary upload the handler returns
\* the response of its run (status = final status, no error) and the store
\* is untouched; the step that publishes 'started' leaves the handler where
\* its envelope alone puts it, at the download with a script name and refused
\* by the validation of the script name without one.
C19_StatusEventBestEffort ==
    [][ \A c \in Consumers :
          /\ ( ex[c].pc = "complete" /\ ex'[c] # ex[c] ) =>
                /\ ex'[c] = [ex[c] EXCEPT
                                !.pc = "returned",
                                !.response = [error |-> FALSE,
                                              status |-> FinalStatus(ex[c].testResults,
                                                                     ex[c].exitCode)]]
                /\ results' = results
          /\ ( ex[c].pc = "started" /\ ex'[c] # ex[c] ) =>
                /\ ex[c].hasBlobName => ex'[c] = [ex[c] EXCEPT !.pc = "download"]
                /\ ~ex[c].hasBlobName =>
                       /\ ex'[c].pc = "thrown"
                       /\ ex'[c].failedAt = "validate"
                       /\ ex'[c].testId = ex[c].testId
                /\ results' = results ]_vars

\* C19 witness: a status queue is configured, neither the 'started' nor the
\* completion event of the run reached it, and the handler has returned the
\* run's status with the summary stored
C19_Witness ==
    /\ env.statusQueueName
    /\ statusQueue = <<>>
    /\ ex["c1"].pc = "returned"
    /\ ex["c1"].response = [error |-> FALSE, status |-> ex["c1"].finalStatus]
    /\ blobExists(results, SummaryBlobName(ex["c1"].testId))
    /\ results[SummaryBlobName(ex["c1"].testId)].data =
           SummaryDocument(ex["c1"].testId, ex["c1"].testResults, ex["c1"].plan)

\* the work item's run got its envelope onto the execution queue
Enqueued(workItemId) ==
    \E i \in 1..Len(execQueue) : execQueue[i].workItemId = workItemId

\* C20: batch isolation. When the handler has returned, the daily summary
\* holds one result per fetched work item, in fetch order, and
\* workItemsProcessed is their number; the result of an item whose processing
\* failed (no envelope was enqueued for it) has status 'error' and the error
\* message, the result of any other item has neither.
C20_BatchIsolation ==
    batch.pc = "done" =>
        LET d == batch.dailySummary
            n == Len(batch.workItems)
        IN /\ d.workItemsProcessed = n
           /\ Len(d.results) = n
           /\ \A k \in 1..n :
                /\ d.results[k].workItemId = batch.workItems[k].workItemId
                /\ IF Enqueued(batch.workItems[k].workItemId)
                   THEN d.results[k].status = "unknown" /\ d.results[k].error = NoError
                   ELSE d.results[k].status = "error" /\ d.results[k].error # NoError

\* C20 witness: of two fetched work items the first failed at the script
\* upload and the second was enqueued; the handler has returned both results
C20_Witness ==
    /\ batch.pc = "done"
    /\ Len(batch.workItems) = 2
    /\ batch.dailySummary.workItemsProcessed = 2
    /\ batch.dailySummary.results[1].status = "error"
    /\ batch.dailySummary.results[1].error = "Failed to upload blob"
    /\ batch.dailySummary.results[2].status = "unknown"
    /\ Enqueued(batch.workItems[2].workItemId)

\* C21: notification failures are not fatal. The notification step of
\* processWorkItem ends with the result returned as it stood, at most the
\* notification recorded, and the daily-summary step ends with the handler
\* returning the summary as it stood, at most marked as sent; neither step
\* touches the script container, the execution queue or the counts, whether
\* the notification was delivered or not.
C21_NotificationFailureNonFatal ==
    [][ /\ ( pwi.pc = "notify" /\ pwi' # pwi ) =>
              /\ pwi'.pc = "return"
              /\ [pwi'.result EXCEPT !.teamsNotifications = 0] =
                     [pwi.result EXCEPT !.teamsNotifications = 0]
              /\ pwi'.result.teamsNotifications \in
                     {pwi.result.teamsNotifications, pwi.result.teamsNotifications + 1}
              /\ UNCHANGED <<scripts, execQueue, batch>>
        /\ ( batch.pc = "summary" /\ batch' # batch ) =>
              /\ batch'.pc = "done"
              /\ [batch'.dailySummary EXCEPT !.summarySent = FALSE] = batch.dailySummary
              /\ UNCHANGED <<scripts, execQueue>> ]_vars

\* C21 witness: with a webhook configured, the notification of the first of
\* two work items and the daily summary both failed; both items were
\* processed, their scripts stored and their envelopes enqueued
C21_Witness ==
    /\ env.teamsWebhookUrl
    /\ batch.pc = "done"
    /\ Len(batch.workItems) = 2
    /\ batch.dailySummary.workItemsProcessed = 2
    /\ ~batch.dailySummary.summarySent
    /\ batch.dailySummary.results[1].teamsNotifications = 0
    /\ batch.dailySummary.results[1].status = "unknown"
    /\ batch.dailySummary.results[2].status = "unknown"
    /\ Len(execQueue) = 2
    /\ Cardinality(DOMAIN scripts) = 2

\* in no state has the batch counted a failed test or filed a defect
NoDefectEverFiled ==
    /\ batch.dailySummary.testsFailed = 0
    /\ batch.dailySummary.testsPassed = 0
    /\ \A k \in 1..Len(batch.dailySummary.results) :
         ~batch.dailySummary.results[k].bugCreated

\* C22 (as claimed): with CREATE_BUGS_FOR_FAILURES set, a work item of the
\* batch whose test run has failed is counted in testsFailed and has a defect
\* filed (bugCreated) when the batch returns.
C22_FailedTestFilesBug ==
    \A k \in 1..Len(batch.workItems) :
        ( /\ batch.pc = "done"
          /\ env.createBugsForFailures
          /\ ex["c1"].pc = "returned"
          /\ ex["c1"].workItemId = batch.workItems[k].workItemId
          /\ ex["c1"].finalStatus = "failed" )
        => /\ batch.dailySummary.testsFailed > 0
           /\ batch.dailySummary.results[k].bugCreated

\* C23: RunBatch terminates without waiting for execution. When every call
\* it awaits returns or fails, the handler reaches its return; and when it
\* has returned no Executor step has been needed (no handler has started,
\* nothing is in the results container), every item that was generated has
\* its envelope on the execution queue, and its result has status 'unknown'.
C23_RunBatchTerminates ==
    /\ <>(batch.pc = "done")
    /\ [](batch.pc = "done" =>
            /\ \A c \in Consumers : ex[c] = IdleEx
            /\ results = <<>>
            /\ Len(batch.dailySummary.results) = Len(batch.workItems)
            /\ \A k \in 1..Len(batch.dailySummary.results) :
                 batch.dailySummary.results[k].status # "error" =>
                    /\ batch.dailySummary.results[k].status = "unknown"
                    /\ \E i \in 1..Len(execQueue) :
                         /\ execQueue[i].workItemId = batch.workItems[k].workItemId
                         /\ blobExists(scripts, execQueue[i].scriptBlobName))

\* C23 witness: the handler has returned for two generated work items whose
\* envelopes wait on the queue; no Executor has started
C23_Witness ==
    /\ batch.pc = "done"
    /\ Len(batch.workItems) = 2
    /\ \A k \in 1..2 : batch.dailySummary.results[k].status = "unknown"
    /\ Len(execQueue) = 2
    /\ \A c \in Consumers : ex[c] = IdleEx
    /\ results = <<>>

\* the combined call of an invocation failed: the API call threw, or the
\* reply was no JSON
CombinedFailed(g) == gen[g].combinedReply \in {"apierror", "text"}

\* the invocation is in its fallback or has been through it: the script call
\* is about to be made or was made
FallbackTried(g) == gen[g].pc = "separateScript" \/ gen[g].scriptCalls = 1

\* C24: single fallback in generateTests. The combined call is made at most
\* once; the separate calls are tried, each at most once and the scenarios
\* call after the script call, if and only if the combined call has failed
\* (a call that threw as well as a reply that does not parse): after a
\* combined call that succeeded no separate call is made, after one that
\* failed the fallback is tried before anything is returned; and an invocation
\* that ends with the error response has written no script blob under its
\* testId.
C24_SingleFallback ==
    \A g \in GenInvocations :
        /\ gen[g].combinedCalls <= 1
        /\ gen[g].scriptCalls <= 1
        /\ gen[g].scenarioCalls <= gen[g].scriptCalls
        /\ gen[g].combinedCalls = 1 <=> gen[g].combinedReply # "none"
        /\ CombinedFailed(g) <=> FallbackTried(g)
        /\ gen[g].combinedReply = "json" =>
              /\ gen[g].scriptCalls = 0
              /\ gen[g].scenarioCalls = 0
              /\ gen[g].pc \in {"upload", "returned", "failed"}
        /\ gen[g].pc = "separateScenarios" => gen[g].scriptCalls = 1
        /\ ( gen[g].pc \in {"upload", "returned"} /\ CombinedFailed(g) ) =>
              gen[g].scenarioCalls = 1
        /\ gen[g].pc = "returned" =>
              /\ gen[g].combinedCalls = 1
              /\ gen[g].scriptCalls = gen[g].scenarioCalls
              /\ ~gen[g].response.error
              /\ blobExists(scripts, ScriptBlobName(gen[g].testId))
        /\ gen[g].pc = "failed" =>
              /\ gen[g].response.error
              /\ gen[g].response.message # NoError
              /\ ~blobExists(scripts, ScriptBlobName(gen[g].testId))

\* C24 witness: the combined reply did not parse, the script call succeeded,
\* the scenarios call failed: the stage returned the error and stored no
\* script, while the other invocation returned after a combined call that
\* succeeded, with no separate call
C24_Witness ==
    \E g, h \in GenInvocations :
        /\ gen[h].pc = "returned"
        /\ gen[h].combinedReply = "json"
        /\ gen[h].scriptCalls = 0
        /\ gen[g].pc = "failed"
        /\ gen[g].combinedReply = "text"
        /\ gen[g].combinedCalls = 1
        /\ gen[g].scriptCalls = 1
        /\ gen[g].scenarioCalls = 1
        /\ gen[g].response.error
        /\ ~blobExists(scripts, ScriptBlobName(gen[g].testId))

\* C25 (as claimed): a reply without a script is not accepted, so no script
\* blob stored by the generation stage is empty.
C25_NoEmptyScriptStored ==
    \A g \in GenInvocations :
        gen[g].pc = "returned" =>
            /\ blobExists(scripts, ScriptBlobName(gen[g].testId))
            /\ scripts[ScriptBlobName(gen[g].testId)] # ""

\* C26 (as claimed): after the generation stage has uploaded the script of a
\* run and returned, an execution envelope for that testId is on the
\* test-execution queue.
C26_GenerateTestsEnqueues ==
    \A g \in GenInvocations :
        gen[g].pc = "returned" =>
            \E i \in 1..Len(execQueue) : execQueue[i].testId = gen[g].testId

\* C27: fresh RunID per invocation. Two invocations of the generation stage,
\* also on the same message, never work under the same testId; and the upload
\* of a script adds a blob under a name that was not in the container,
\* leaving every stored script as it was.
C27_FreshRunId ==
    /\ [](\A g1, g2 \in GenInvocations :
            ( g1 # g2 /\ gen[g1].testId # NoId /\ gen[g2].testId # NoId )
                => gen[g1].testId # gen[g2].testId)
    /\ [][ \A g \in GenInvocations :
             ( gen[g].pc = "upload" /\ gen'[g].pc = "returned" ) =>
                /\ ~blobExists(scripts, ScriptBlobName(gen[g].testId))
                /\ DOMAIN scripts' = DOMAIN scripts \cup {ScriptBlobName(gen[g].testId)}
                /\ \A k \in DOMAIN scripts : scripts'[k] = scripts[k] ]_vars

\* C27 witness: the message of work item 101 was delivered twice; both
\* invocations returned, and two script blobs are stored
C27_Witness ==
    /\ gen["g1"].pc = "returned" /\ gen["g2"].pc = "returned"
    /\ gen["g1"].workItemId = 101 /\ gen["g2"].workItemId = 101
    /\ blobExists(scripts, ScriptBlobName(gen["g1"].testId))
    /\ blobExists(scripts, ScriptBlobName(gen["g2"].testId))
    /\ Cardinality(DOMAIN scripts) = 2

RECURSIVE Flatten(_)
\* the files of a directory tree in walk order, as one top-level directory
Flatten(entries) ==
    IF entries = <<>> THEN <<>>
    ELSE IF Head(entries).isDir
    THEN Flatten(Head(entries).entries) \o Flatten(Tail(entries))
    ELSE <<Head(entries)>> \o Flatten(Tail(entries))

\* C28 (as claimed): harvesting is recursive for status as well. The status
\* and the summary harvested from an output directory are those harvested
\* from the same files lying at the top level.
C28_RecursiveStatus ==
    \A c \in Consumers :
        Ran(c) =>
            /\ ex[c].testResults.status = collectTestResults(Flatten(ex[c].dir)).status
            /\ ex[c].testResults.summary = collectTestResults(Flatten(ex[c].dir)).summary

\* C29 (as claimed): the status GetStatus returns for a completed run is the
\* final status the Executor returned for it.
C29_StatusAgreesWithExecutor ==
    ( /\ ex["c1"].pc = "returned"
      /\ res.pc = "done"
      /\ res.testId = ex["c1"].testId
      /\ res.faults = {}
      /\ SummaryBlobName(res.testId) \in res.atCall )
    => /\ res.status = 200
       /\ res.body.status = ex["c1"].response.status

\* C30: an envelope without scriptBlobName is rejected before execution. A
\* handler whose envelope named no script blob is publishing its 'started'
\* event or has stopped in the validation, with no sandbox run, and the results container holds no blob under the
\* testId of such a handler or of such an envelope.
C30_UrlOnlyEnvelopeRejected ==
    /\ \A c \in Consumers :
         ( ~ex[c].isNull /\ ex[c].scriptBlobName = <<>> ) =>
            /\ ex[c].pc \in {"started", "thrown"}
            /\ ex[c].pc = "thrown" => ex[c].failedAt = "validate"
            /\ ex[c].sandbox = "none"
            /\ ex[c].script = ""
            /\ \A k \in DOMAIN results : k[1] # ex[c].testId
    /\ \A item \in ExternalItems :
         ( ~item.isNull /\ ~item.hasBlobName /\ item.testId # NoId ) =>
            \A k \in DOMAIN results : k[1] # item.testId
    /\ \A c \in Consumers :
         ex[c].sandbox # "none" => ex[c].scriptBlobName # <<>>

\* C30 witness: one handler got the envelope with a scriptBlobUrl only and
\* refused it, while the other ran an orchestrator envelope and stored its
\* summary
C30_Witness ==
    \E c, d \in Consumers :
        /\ ex[c].pc = "thrown"
        /\ ex[c].failedAt = "validate"
        /\ ex[c].testId = 901
        /\ ex[c].error = "scriptBlobName is required when scriptBlobUrl is provided"
        /\ ex[d].pc = "returned"
        /\ blobExists(results, SummaryBlobName(ex[d].testId))

TeamsErrors ==
    {"Teams webhook URL is required", "Message must have at least a title or text",
     "Invalid webhook URL", "Teams webhook returned status",
     "Failed to send Teams notification"}

DevOpsErrors ==
    {"Bug title is required", "Azure DevOps configuration is required",
     "Invalid Azure DevOps URL", "Azure DevOps API returned status",
     "Failed to create Azure DevOps bug"}

IsError(r) == DOMAIN r = {"error"}

\* C31: sendNotificationAndCreateBug never throws; when it has returned, the
\* notification field holds the webhook's answer or a notification error, the
\* bug field holds the created bug or a bug-creation error whenever bugData
\* was given (whatever the notification did) and null otherwise, and the
\* bug-creation step leaves the notification field as it was.
C31_IndependentlyFailable ==
    /\ [] ( /\ teams.pc # "thrown"
            /\ teams.pc = "returned" =>
                 /\ IF teams.posted = 1
                    THEN teams.results.notification = [statusCode |-> 200]
                    ELSE /\ IsError(teams.results.notification)
                         /\ teams.results.notification.error \in TeamsErrors
                 /\ IF teams.bugData.isNull
                    THEN teams.results.bug = NullResult /\ teams.filed = 0
                    ELSE IF teams.filed = 1
                    THEN teams.results.bug \in {[id |-> 1], [rawResponse |-> "not json"]}
                    ELSE /\ IsError(teams.results.bug)
                         /\ teams.results.bug.error \in DevOpsErrors )
    /\ [][ teams.pc = "bug" =>
             /\ teams'.results.notification = teams.results.notification
             /\ teams'.posted = teams.posted ]_vars

\* C31 witness: the notification failed and the bug was created all the same
C31_Witness ==
    /\ teams.pc = "returned"
    /\ IsError(teams.results.notification)
    /\ teams.posted = 0
    /\ teams.results.bug = [id |-> 1]
    /\ teams.filed = 1

\* number of events on the status queue for a testId with one of the statuses
EventCount(testId, statuses) ==
    Cardinality({ i \in DOMAIN statusQueue :
                    statusQueue[i].testId = testId /\ statusQueue[i].status \in statuses })

TerminalStatuses == {"passed", "failed", "error"}

\* C32: a 'started' status event is followed by exactly one terminal event.
\* Once the only handler of a testId has come to rest after its 'started'
\* event reached the queue, and the run went wrong in the download, the
\* execution or the upload, the queue holds exactly one 'passed', 'failed' or
\* 'error' event for that testId.
C32_StartedHasTerminal ==
    \A c \in Consumers :
        ( /\ env.statusQueueName
          /\ ex[c].pc = "thrown"
          /\ ex[c].failedAt \in {"download", "run", "upload", "summary"}
          /\ \A d \in Consumers \ {c} : ex[d].isNull \/ ex[d].testId # ex[c].testId
          /\ EventCount(ex[c].testId, {"started"}) = 1 )
        => EventCount(ex[c].testId, TerminalStatuses) = 1

\* the envelopes on the execution queue that carry the work item's id
EnvelopesOf(workItemId) ==
    { i \in 1..Len(execQueue) : execQueue[i].workItemId = workItemId }

\* C33: at most one envelope per fetched work item. In every state of a batch
\* the execution queue holds at most one envelope for each fetched work item
\* and none for any other; the number of envelopes is at most
\* workItemsProcessed plus the one of the work item being processed, and at
\* most workItemsProcessed once the handler has returned; a work item whose
\* result came back without an error (generation, upload and enqueue
\* succeeded) has exactly one envelope, carrying the run's script blob name.
C33_OneEnvelopePerWorkItem ==
    LET d == batch.dailySummary
        inFlight == IF pwi.pc \in {"notify", "return"} THEN 1 ELSE 0
    IN /\ \A k \in 1..Len(batch.workItems) :
            Cardinality(EnvelopesOf(batch.workItems[k].workItemId)) <= 1
       /\ \A i \in 1..Len(execQueue) :
            \E k \in 1..Len(batch.workItems) :
                execQueue[i].workItemId = batch.workItems[k].workItemId
       /\ Len(execQueue) <= d.workItemsProcessed + inFlight
       /\ batch.pc \in {"summary", "done"} => Len(execQueue) <= d.workItemsProcessed
       /\ \A k \in 1..Len(d.results) :
            d.results[k].status # "error" =>
                /\ Cardinality(EnvelopesOf(d.results[k].workItemId)) = 1
                /\ \A i \in EnvelopesOf(d.results[k].workItemId) :
                       /\ execQueue[i].scriptBlobName \in DOMAIN scripts
                       /\ d.results[k].automatedTestScripts = << execQueue[i].scriptBlobName >>

\* C33 witness: the handler has returned after two work items, the first with
\* its envelope on the queue, the second failed at the enqueue and without one
C33_Witness ==
    /\ batch.pc = "done"
    /\ Len(batch.workItems) = 2
    /\ batch.dailySummary.workItemsProcessed = 2
    /\ Len(execQueue) = 1
    /\ execQueue[1].workItemId = batch.workItems[1].workItemId
    /\ batch.dailySummary.results[1].status = "unknown"
    /\ batch.dailySummary.results[2].error = "Failed to enqueue message"

\* the entries of a collection that are the file (same name, same bytes)
EntriesOf(collection, file) ==
    { i \in 1..Len(collection) :
         collection[i].name = file.name /\ collection[i].content = file.content }

\* what the name of a file says about where it belongs, by the extension and
\* the words of lines 80, 90 and 99
IsScreenshotName(name) ==
    extname(name) \in {".png", ".jpg", ".jpeg"} \/ includes(name, "screenshot")

IsLogName(name) == extname(name) \in {".log", ".txt"} \/ includes(name, "log")

IsReportName(name) == extname(name) \in {".json", ".html"}

IsMalformedJson(file) ==
    /\ ~IsScreenshotName(file.name)
    /\ ~IsLogName(file.name)
    /\ extname(file.name) = ".json"
    /\ ~file.content.parses

\* a JSON report whose value is null: the other file the loop cannot get past
IsNullJson(file) ==
    /\ ~IsScreenshotName(file.name)
    /\ ~IsLogName(file.name)
    /\ extname(file.name) = ".json"
    /\ file.content.isNull

\* C34 (as claimed): a malformed JSON file does not prevent the harvesting of
\* the other files. After collectTestResults of a directory tree whose JSON
\* reports are well-formed or malformed (none is the value null), every
\* screenshot, log and report file of the tree other than the malformed ones
\* is in its collection.
C34_MalformedJsonSkipped ==
    ( /\ ex["c1"].pc = "collected"
      /\ \A k \in 1..Len(Flatten(ex["c1"].dir)) : ~IsNullJson(Flatten(ex["c1"].dir)[k]) ) =>
        LET files == Flatten(ex["c1"].dir)
            r == ex["c1"].testResults
        IN \A k \in 1..Len(files) :
              ~IsMalformedJson(files[k]) =>
                 /\ IsScreenshotName(files[k].name) => EntriesOf(r.screenshots, files[k]) # {}
                 /\ ( ~IsScreenshotName(files[k].name) /\ IsLogName(files[k].name) ) =>
                        EntriesOf(r.logs, files[k]) # {}
                 /\ ( ~IsScreenshotName(files[k].name) /\ ~IsLogName(files[k].name)
                      /\ IsReportName(files[k].name) ) =>
                        EntriesOf(r.reports, files[k]) # {}

\* C35: classification of harvested files. After collectTestResults a file
\* of the directory tree lies in at most one of the three collections; what
\* lies in screenshots has an image extension or 'screenshot' in its name,
\* what lies in logs has not and has a .log/.txt extension or 'log' in its
\* name, what lies in reports has neither and has a .json/.html extension; a
\* file no test takes lies in none. A status other than 'unknown' and a
\* summary come from the stats of a JSON report in the reports collection.
C35_ClassificationPrecedence ==
    ex["c1"].pc = "collected" =>
        LET files == Flatten(ex["c1"].dir)
            r == ex["c1"].testResults
        IN /\ \A k \in 1..Len(files) :
                LET f == files[k]
                    inShots == EntriesOf(r.screenshots, f) # {}
                    inLogs == EntriesOf(r.logs, f) # {}
                    inReports == EntriesOf(r.reports, f) # {}
                IN /\ ~(inShots /\ inLogs) /\ ~(inShots /\ inReports) /\ ~(inLogs /\ inReports)
                   /\ inShots => IsScreenshotName(f.name)
                   /\ inLogs => ~IsScreenshotName(f.name) /\ IsLogName(f.name)
                   /\ inReports => /\ ~IsScreenshotName(f.name) /\ ~IsLogName(f.name)
                                   /\ IsReportName(f.name)
           /\ ( r.status # "unknown" \/ r.summary # NoSummary ) =>
                \E i \in 1..Len(r.reports) :
                    /\ r.reports[i].type = "json"
                    /\ r.reports[i].content.hasStats
                    /\ r.status = StatsStatus(r.reports[i].content.stats)
                    /\ r.summary = StatsSummary(r.reports[i].content.stats)

\* C35 witness: a directory with an image whose name contains 'log', a JSON
\* file with stats whose name contains 'log' and a JSON report; the image
\* went to screenshots, the second to logs, and the status is the report's
C35_Witness ==
    /\ ex["c1"].pc = "collected"
    /\ ex["c1"].dir = << File("login.png", Bytes(15)),
                         File("report.json", JsonStats(1, 1, 0)),
                         File("catalog.json", JsonStats(10, 0, 1)) >>
    /\ Len(ex["c1"].testResults.screenshots) = 1
    /\ Len(ex["c1"].testResults.logs) = 1
    /\ Len(ex["c1"].testResults.reports) = 1
    /\ ex["c1"].testResults.status = "passed"

\* C36: fetchWorkItems accounting. While enqueueWorkItems runs it has one
\* result per work item it has passed, in fetch order, successful exactly for
\* those whose message is on the jobs queue; the summary returned after it
\* has workItemsEnqueued + workItemsFailed = workItemsFound and one
\* enqueueResults entry per fetched work item, in fetch order; the summary of
\* a run that found nothing counts no work item and nothing was enqueued.
C36_FetchAccounting ==
    LET onQueue(workItemId) ==
            \E q \in 1..Len(jobsQueue) : jobsQueue[q].workItemId = workItemId
    IN /\ fetch.pc = "enqueue" => Len(fetch.enqueueResults) = fetch.i - 1
       /\ \A k \in 1..Len(fetch.enqueueResults) :
            /\ fetch.enqueueResults[k].workItemId = toString(fetch.workItemIds[k])
            /\ fetch.enqueueResults[k].success <=> onQueue(fetch.enqueueResults[k].workItemId)
       /\ ( fetch.pc = "returned" /\ fetch.ret.success ) =>
            IF fetch.workItemIds = <<>>
            THEN /\ fetch.ret.workItemsFound = 0
                 /\ fetch.ret.workItemsEnqueued = 0
                 /\ jobsQueue = <<>>
            ELSE /\ fetch.ret.workItemsFound = Len(fetch.workItemIds)
                 /\ fetch.ret.workItemsEnqueued + fetch.ret.workItemsFailed
                        = fetch.ret.workItemsFound
                 /\ fetch.ret.workItemsEnqueued = Len(jobsQueue)
                 /\ Len(fetch.ret.enqueueResults) = fetch.ret.workItemsFound
                 /\ \A k \in 1..Len(fetch.ret.enqueueResults) :
                        fetch.ret.enqueueResults[k].workItemId = toString(fetch.workItemIds[k])

\* C36 witness: of three work items found the second could not be enqueued
\* and the third was enqueued after it
C36_Witness ==
    /\ fetch.pc = "returned"
    /\ fetch.ret.success
    /\ fetch.workItemIds = <<101, 102, 103>>
    /\ fetch.ret.workItemsFound = 3
    /\ fetch.ret.workItemsEnqueued = 2
    /\ fetch.ret.workItemsFailed = 1
    /\ ~fetch.ret.enqueueResults[2].success
    /\ jobsQueue = << QueueMessage([workItemId |-> "101"]), QueueMessage([workItemId |-> "103"]) >>

====
